---- MODULE Spec2Model ----
(***************************************************************************)
(* Plain text -> HTML report renderer of analyze_company_combined.py:      *)
(* clean_text, parse_to_sections (start_section, close_open_blocks,        *)
(* render_table, add_paragraph), build_nav and build_html_report.          *)
(*                                                                         *)
(* A text is a sequence of characters, a character is a one-character      *)
(* string; a character outside ASCII is written by its code point          *)
(* ("U+0451").  Markup is a sequence of tokens: a token is a character     *)
(* copied from the input, an entity written by html.escape ("&lt;") or a   *)
(* structural tag written by the renderer ("<p>"); the rendered string is  *)
(* the concatenation of the tokens.                                        *)
(***************************************************************************)
EXTENDS Integers, Sequences, FiniteSets, TLC

\* ------------------------------------------------------------------------
\* Characters
\* ------------------------------------------------------------------------
NL == "\n"

\* the backtick (grave accent)
Backtick == "U+0060"

\* Python's \s and str.strip() on the characters used here
Space == {" ", "\t", NL}

Digit == {"0", "1", "2", "3", "4", "5", "6", "7", "8", "9"}

\* "Аналитический отчёт"
DefaultTitle ==
    << "U+0410", "U+043D", "U+0430", "U+043B", "U+0438", "U+0442", "U+0438",
       "U+0447", "U+0435", "U+0441", "U+043A", "U+0438", "U+0439", " ",
       "U+043E", "U+0442", "U+0447", "U+0451", "U+0442" >>

CyrLower == {"U+043D", "U+0430", "U+043B", "U+0438", "U+0442", "U+0447",
             "U+0435", "U+0441", "U+043A", "U+0439", "U+043E", "U+0451",
             "U+0432", "U+043C", "U+0436", "U+043F", "U+0440"}

\* А, В, П
CyrUpper == {"U+0410", "U+0412", "U+041F"}

LatinLower == {"a", "b", "c", "d", "s", "x"}

LatinUpper == {"D"}

\* combining breve and combining diaeresis; "U+2013" below is the en dash
Combining == {"U+0306", "U+0308"}

\* Python's \w (re.UNICODE) on the characters used here
Word == Digit \cup LatinLower \cup LatinUpper \cup CyrLower \cup CyrUpper \cup {"_"}

\* every character an input text is made of
Alphabet == Word \cup Space \cup Combining \cup
            {".", ")", "#", "-", "*", "|", ":", Backtick, "<", ">", "&", "'", "U+2013"}

\* ------------------------------------------------------------------------
\* String helpers
\* ------------------------------------------------------------------------
RECURSIVE SkipSet(_, _, _)
\* first index >= p whose character is not in S (Len(t)+1 when there is none)
SkipSet(t, p, S) ==
    IF p <= Len(t) /\ t[p] \in S THEN SkipSet(t, p + 1, S) ELSE p

RECURSIVE SkipBack(_, _, _)
\* last index <= p whose character is not in S (0 when there is none)
SkipBack(t, p, S) ==
    IF p >= 1 /\ t[p] \in S THEN SkipBack(t, p - 1, S) ELSE p

StripSet(t, S) == SubSeq(t, SkipSet(t, 1, S), SkipBack(t, Len(t), S))

\* str.strip()
Strip(t) == StripSet(t, Space)

\* str.rstrip("\r"): no text here holds a carriage return
RStripCR(t) == StripSet(t, {"\r"})

RECURSIVE Flatten(_)
\* "".join(parts)
Flatten(parts) ==
    IF parts = << >> THEN << >> ELSE Head(parts) \o Flatten(Tail(parts))

RECURSIVE JoinWith(_, _)
\* sep.join(parts)
JoinWith(parts, sep) ==
    IF parts = << >> THEN << >>
    ELSE IF Len(parts) = 1 THEN parts[1]
    ELSE parts[1] \o sep \o JoinWith(Tail(parts), sep)

RECURSIVE SkipTo(_, _, _)
\* first index >= p whose character is c (Len(t)+1 when there is none)
SkipTo(t, p, c) ==
    IF p <= Len(t) /\ t[p] # c THEN SkipTo(t, p + 1, c) ELSE p

RECURSIVE SplitOn(_, _)
\* str.split(c): the pieces between the occurrences of c
SplitOn(t, c) ==
    LET p == SkipTo(t, 1, c)
    IN  IF p > Len(t) THEN << t >>
        ELSE << SubSeq(t, 1, p - 1) >> \o SplitOn(SubSeq(t, p + 1, Len(t)), c)

\* str.splitlines(): split at line ends, no empty last piece
splitlines(t) ==
    LET pieces == SplitOn(t, NL)
    IN  IF pieces[Len(pieces)] = << >> THEN SubSeq(pieces, 1, Len(pieces) - 1)
        ELSE pieces

Count(t, c) == Cardinality({i \in 1..Len(t) : t[i] = c})

\* html.escape(s) with quote=True, character by character
EscapeChar(c) ==
    CASE c = "&" -> "&amp;"
      [] c = "<" -> "&lt;"
      [] c = ">" -> "&gt;"
      [] c = "\"" -> "&quot;"
      [] c = "'" -> "&#x27;"
      [] OTHER -> c

\* html.escape left out: the text goes into the markup as it is
html_escape_raw(t) == t

html_escape(t) == [i \in 1..Len(t) |-> EscapeChar(t[i])]

\* ------------------------------------------------------------------------
\* slugify
\* ------------------------------------------------------------------------
\* unicodedata.normalize("NFKD", ch) of one character
NFKD(c) ==
    CASE c = "U+0439" -> << "U+0438", "U+0306" >>
      [] c = "U+0451" -> << "U+0435", "U+0308" >>
      [] OTHER -> << c >>

\* str.lower() of one character
LowerChar(c) ==
    CASE c = "D" -> "d"
      [] c = "U+0410" -> "U+0430"
      [] c = "U+0412" -> "U+0432"
      [] c = "U+041F" -> "U+043F"
      [] OTHER -> c

RECURSIVE Filter(_, _)
\* the characters of t that are in S, in order
Filter(t, S) ==
    IF t = << >> THEN << >>
    ELSE (IF Head(t) \in S THEN << Head(t) >> ELSE << >>) \o Filter(Tail(t), S)

RECURSIVE SubSpaces(_)
\* re.sub(r"\s+", "-", t)
SubSpaces(t) ==
    IF t = << >> THEN << >>
    ELSE IF Head(t) \in Space
         THEN << "-" >> \o SubSpaces(SubSeq(t, SkipSet(t, 1, Space), Len(t)))
         ELSE << Head(t) >> \o SubSpaces(Tail(t))

\* the slug before the fallback: lines 67-71
SlugOf(text) ==
    LET nfkd    == Flatten([i \in 1..Len(text) |-> NFKD(text[i])])
        nocomb  == Filter(nfkd, Alphabet \ Combining)
        kept    == Filter(nocomb, Word \cup Space \cup {"-", "."})
        dashed  == SubSpaces(Strip(kept))
        trimmed == StripSet(dashed, {"-", "_", "."})
    IN  [i \in 1..Len(trimmed) |-> LowerChar(trimmed[i])]

\* uuid4().hex[:8]: eight hexadecimal digits chosen by the generator
UuidHex8 == { << "0", "0", "0", "0", "0", "0", "0", "0" >>,
              << "d", "1", "a", "b", "c", "2", "a", "9" >> }

\* a slugify that returns the slug as it is, empty or not
slugify_no_fallback(text, hex8) == SlugOf(text)

\* slugify(text), hex8 being the value uuid4().hex[:8] would yield
slugify(text, hex8) ==
    IF SlugOf(text) # << >> THEN SlugOf(text) ELSE << "i", "d", "-" >> \o hex8

\* ------------------------------------------------------------------------
\* clean_text
\* ------------------------------------------------------------------------
RECURSIVE SubHashes(_, _)
\* re.sub(r"^\s*#{1,6}\s*", "", t, flags=re.MULTILINE), scanning from p
SubHashes(t, p) ==
    IF p > Len(t) THEN << >>
    ELSE LET h    == SkipSet(t, p, Space)
             hEnd == SkipSet(SubSeq(t, 1, IF h + 5 < Len(t) THEN h + 5 ELSE Len(t)),
                             h, {"#"})
             e    == SkipSet(t, hEnd, Space)
         IN  IF (p = 1 \/ t[p - 1] = NL) /\ hEnd > h
             THEN SubHashes(t, e)
             ELSE << t[p] >> \o SubHashes(t, p + 1)

RECURSIVE FindPair(_, _, _)
\* first index >= p where c occurs twice in a row (0 when there is none)
FindPair(t, p, c) ==
    IF p + 1 > Len(t) THEN 0
    ELSE IF t[p] = c /\ t[p + 1] = c THEN p
    ELSE FindPair(t, p + 1, c)

RECURSIVE SubBold(_, _)
\* re.sub(r"\*\*(.*?)\*\*", r"\1", t, flags=re.DOTALL), scanning from p
SubBold(t, p) ==
    IF p > Len(t) THEN << >>
    ELSE LET close == FindPair(t, p + 2, "*")
         IN  IF FindPair(t, p, "*") = p /\ close # 0
             THEN SubSeq(t, p + 2, close - 1) \o SubBold(t, close + 2)
             ELSE << t[p] >> \o SubBold(t, p + 1)

RECURSIVE SubInlineCode(_, _)
\* re.sub(r"B([^B]+)B", r"\1", t) with B the backtick, scanning from p
SubInlineCode(t, p) ==
    IF p > Len(t) THEN << >>
    ELSE LET close == SkipTo(t, p + 1, Backtick)
         IN  IF t[p] = Backtick /\ close > p + 1 /\ close <= Len(t)
             THEN SubSeq(t, p + 1, close - 1) \o SubInlineCode(t, close + 1)
             ELSE << t[p] >> \o SubInlineCode(t, p + 1)

RECURSIVE SubNewlines(_, _)
\* re.sub(r"\n{3,}", "\n\n", t), scanning from p
SubNewlines(t, p) ==
    IF p > Len(t) THEN << >>
    ELSE LET e == SkipSet(t, p, {NL})
         IN  IF e - p >= 3
             THEN << NL, NL >> \o SubNewlines(t, e)
             ELSE << t[p] >> \o SubNewlines(t, p + 1)

\* the value None passed for plain_text: one token that is no character
PyNone == << "None" >>

\* a clean_text that leaves the hashes where they are
clean_text_hashes_kept(plain_text) ==
    LET text == IF plain_text = PyNone THEN << >> ELSE plain_text
        t2 == SubBold(text, 1)
        t3 == SubInlineCode(t2, 1)
        t4 == SubNewlines(t3, 1)
    IN  Strip(t4)

\* clean_text(plain_text); line 163 turns None into the empty text
clean_text(plain_text) ==
    LET text == IF plain_text = PyNone THEN << >> ELSE plain_text
        t1 == SubHashes(text, 1)
        t2 == SubBold(t1, 1)
        t3 == SubInlineCode(t2, 1)
        t4 == SubNewlines(t3, 1)
    IN  Strip(t4)

\* ------------------------------------------------------------------------
\* The line patterns (lines 171-176).  A match is a record: ok tells whether
\* the pattern matches, g1 and g2 are its groups.
\* ------------------------------------------------------------------------
NoMatch == [ok |-> FALSE, g1 |-> << >>, g2 |-> << >>]

RECURSIVE NumeralEnd(_, _)
\* p follows a run of digits: the index after the longest (\.\d+)* from p
NumeralEnd(t, p) ==
    IF p + 1 <= Len(t) /\ t[p] = "." /\ t[p + 1] \in Digit
    THEN NumeralEnd(t, SkipSet(t, p + 1, Digit))
    ELSE p

\* the text group (.*\S) followed by \s*$ : what is left from p, right-stripped
TextGroup(t, p) == SubSeq(t, p, SkipBack(t, Len(t), Space))

\* a numeric-heading pattern that takes the dot only after the numeral
_heading_num_dot_only(line) ==
    LET p0 == SkipSet(line, 1, Space)
        d  == SkipSet(line, p0, Digit)
        p1 == NumeralEnd(line, d)
        p3 == SkipSet(line, p1 + 1, Space)
    IN  IF /\ d > p0
           /\ p1 <= Len(line)
           /\ line[p1] = "."
           /\ p3 > p1 + 1
           /\ p3 <= Len(line)
        THEN [ok |-> TRUE, g1 |-> SubSeq(line, p0, p1 - 1), g2 |-> TextGroup(line, p3)]
        ELSE NoMatch

\* _heading_num = ^\s*(\d+(?:\.\d+)*)[.)]\s+(.*\S)\s*$
\* Only the longest numeral can be followed by [.)] and a space: a shorter
\* one is followed by a digit, or by a dot and a digit.
_heading_num(line) ==
    LET p0 == SkipSet(line, 1, Space)
        d  == SkipSet(line, p0, Digit)
        p1 == NumeralEnd(line, d)
        p3 == SkipSet(line, p1 + 1, Space)
    IN  IF /\ d > p0
           /\ p1 <= Len(line)
           /\ line[p1] \in {".", ")"}
           /\ p3 > p1 + 1
           /\ p3 <= Len(line)
        THEN [ok |-> TRUE, g1 |-> SubSeq(line, p0, p1 - 1), g2 |-> TextGroup(line, p3)]
        ELSE NoMatch

\* _heading_md = ^\s*(#{1,6})\s+(.*\S)\s*$
_heading_md(line) ==
    LET p0 == SkipSet(line, 1, Space)
        p1 == SkipSet(line, p0, {"#"})
        p3 == SkipSet(line, p1, Space)
    IN  IF /\ p1 > p0
           /\ p1 - p0 <= 6
           /\ p3 > p1
           /\ p3 <= Len(line)
        THEN [ok |-> TRUE, g1 |-> SubSeq(line, p0, p1 - 1), g2 |-> TextGroup(line, p3)]
        ELSE NoMatch

\* _ul_item = ^\s*[-*]\s+(.*\S)\s*$
_ul_item(line) ==
    LET p0 == SkipSet(line, 1, Space)
        p3 == SkipSet(line, p0 + 1, Space)
    IN  IF /\ p0 <= Len(line)
           /\ line[p0] \in {"-", "*"}
           /\ p3 > p0 + 1
           /\ p3 <= Len(line)
        THEN [ok |-> TRUE, g1 |-> TextGroup(line, p3), g2 |-> << >>]
        ELSE NoMatch

\* _ol_item = ^\s*\d+\.\s+(.*\S)\s*$
_ol_item(line) ==
    LET p0 == SkipSet(line, 1, Space)
        p1 == SkipSet(line, p0, Digit)
        p3 == SkipSet(line, p1 + 1, Space)
    IN  IF /\ p1 > p0
           /\ p1 <= Len(line)
           /\ line[p1] = "."
           /\ p3 > p1 + 1
           /\ p3 <= Len(line)
        THEN [ok |-> TRUE, g1 |-> TextGroup(line, p3), g2 |-> << >>]
        ELSE NoMatch

\* _table_row = ^\s*\|(.+)\|\s*$ : the greedy group ends at the last pipe
_table_row(line) ==
    LET s == Strip(line)
    IN  IF Len(s) >= 3 /\ s[1] = "|" /\ s[Len(s)] = "|"
        THEN [ok |-> TRUE, g1 |-> SubSeq(s, 2, Len(s) - 1), g2 |-> << >>]
        ELSE NoMatch

\* one (:?-{3,}:?\s*\|) from p: the indexes it can end before (backtracking
\* over the optional colons cannot change where the pipe is)
SepCell(t, p) ==
    LET a == IF p <= Len(t) /\ t[p] = ":" THEN p + 1 ELSE p
        b == SkipSet(t, a, {"-"})
        c == IF b <= Len(t) /\ t[b] = ":" THEN b + 1 ELSE b
        e == SkipSet(t, c, Space)
    IN  IF b - a >= 3 /\ e <= Len(t) /\ t[e] = "|" THEN e + 1 ELSE 0

RECURSIVE SepCells(_, _)
\* the indexes that one or more SepCell from p can end before
SepCells(t, p) ==
    LET e == SepCell(t, p)
    IN  IF e = 0 THEN {} ELSE {e} \cup SepCells(t, e)

\* the tail \s*(?:[:\-]{3,})?\s*\|?\s*$ from p.  The optional run is left out
\* or taken whole: a part of it would leave a dash or colon before the end.
SepTail(t, p) ==
    LET a    == SkipSet(t, p, Space)
        runE == SkipSet(t, a, {":", "-"})
        afterRun == {a} \cup (IF runE - a >= 3 THEN {runE} ELSE {})
        Rest(r) == LET b == SkipSet(t, r, Space)
                       c == IF b <= Len(t) /\ t[b] = "|" THEN b + 1 ELSE b
                   IN  SkipSet(t, c, Space) > Len(t)
    IN  \E r \in afterRun : Rest(r)

\* _table_sep = ^\s*\|?\s*(:?-{3,}:?\s*\|)+\s*(?:[:\-]{3,})?\s*\|?\s*$
_table_sep(line) ==
    LET p0 == SkipSet(line, 1, Space)
        \* with the optional leading pipe, or without it
        starts == {p0} \cup (IF p0 <= Len(line) /\ line[p0] = "|"
                             THEN {SkipSet(line, p0 + 1, Space)} ELSE {})
    IN  \E st \in starts : \E e \in SepCells(line, st) : SepTail(line, e)

\* the keywords of line 323, lower-cased: Внимание, Важно, Примечание
CalloutWords ==
    << << "U+0432", "U+043D", "U+0438", "U+043C", "U+0430", "U+043D", "U+0438", "U+0435" >>,
       << "U+0432", "U+0430", "U+0436", "U+043D", "U+043E" >>,
       << "U+043F", "U+0440", "U+0438", "U+043C", "U+0435", "U+0447", "U+0430", "U+043D",
          "U+0438", "U+0435" >> >>

\* t holds the word w at index p, letter case ignored
HasWordAt(t, p, w) ==
    /\ p + Len(w) - 1 <= Len(t)
    /\ \A i \in 1..Len(w) : LowerChar(t[p + i - 1]) = w[i]

\* re.match(r"^\s*(Внимание|Важно|Примечание)\s*[:\-–]", line, re.IGNORECASE)
IsCallout(line) ==
    LET p0 == SkipSet(line, 1, Space)
    IN  \E k \in 1..Len(CalloutWords) :
            /\ HasWordAt(line, p0, CalloutWords[k])
            /\ LET q == SkipSet(line, p0 + Len(CalloutWords[k]), Space)
               IN  q <= Len(line) /\ line[q] \in {":", "-", "U+2013"}

\* ------------------------------------------------------------------------
\* parse_to_sections: the section record and its helpers (lines 184-247)
\* ------------------------------------------------------------------------
\* "current = None" of line 182.  table_rows = None is the empty sequence:
\* line 291 appends a row right after line 290 sets the empty list, so the two
\* are never told apart.
None ==
    [title |-> << >>, level |-> 0, id |-> << >>, blocks |-> << >>,
     list_type |-> "None", table_rows |-> << >>, in_code |-> FALSE,
     code_buf |-> << >>]

\* the dict built at lines 189-198
NewSection(title, level, hex8) ==
    [title |-> Strip(title), level |-> level, id |-> slugify(title, hex8),
     blocks |-> << >>, list_type |-> "None", table_rows |-> << >>,
     in_code |-> FALSE, code_buf |-> << >>]

\* "<pre><code>{}</code></pre>".format(html.escape("\n".join(code_buf)))
CodeBlock(code_buf) ==
    << "<pre>", "<code>" >> \o html_escape(JoinWith(code_buf, << NL >>))
                            \o << "</code>", "</pre>" >>

\* one <tr> of render_table: the cells of the row, stripped and escaped
TableTr(raw, tag) ==
    LET cells == SplitOn(_table_row(raw).g1, "|")
        Cell(c) == << "<" \o tag \o ">" >> \o html_escape(Strip(c))
                                          \o << "</" \o tag \o ">" >>
    IN  << "<tr>" >> \o Flatten([i \in 1..Len(cells) |-> Cell(cells[i])])
                     \o << "</tr>" >>

\* a render_table that keeps the separator row as a body row
render_table_sep_kept(rows) ==
    IF rows = << >> THEN << >>
    ELSE LET tr(i) == IF _table_row(rows[i]).ok
                      THEN << TableTr(rows[i], IF i = 1 THEN "th" ELSE "td") >>
                      ELSE << >>
             tr_html == Flatten([i \in 1..Len(rows) |-> tr(i)])
         IN  IF tr_html = << >> THEN << >>
             ELSE << "<div class='table-wrap'>", "<table>", "<thead>" >>
                  \o tr_html[1]
                  \o << "</thead>", "<tbody>" >>
                  \o Flatten(Tail(tr_html))
                  \o << "</tbody>", "</table>", "</div>" >>

render_table(rows) ==
    IF rows = << >> THEN << >>
    ELSE LET kept == IF Len(rows) >= 2 /\ _table_sep(rows[2])
                     THEN << rows[1] >> \o SubSeq(rows, 3, Len(rows))
                     ELSE rows
             \* a row that is not a table row is skipped (line 226)
             tr(i) == IF _table_row(kept[i]).ok
                      THEN << TableTr(kept[i], IF i = 1 THEN "th" ELSE "td") >>
                      ELSE << >>
             tr_html == Flatten([i \in 1..Len(kept) |-> tr(i)])
         IN  IF tr_html = << >> THEN << >>
             ELSE << "<div class='table-wrap'>", "<table>", "<thead>" >>
                  \o tr_html[1]
                  \o << "</thead>", "<tbody>" >>
                  \o Flatten(Tail(tr_html))
                  \o << "</tbody>", "</table>", "</div>" >>

\* a close_open_blocks that forgets the table buffer
close_open_blocks_table_left(sec) ==
    LET s1 == IF sec.in_code
              THEN [sec EXCEPT !.blocks = Append(@, CodeBlock(sec.code_buf)),
                               !.in_code = FALSE,
                               !.code_buf = << >>]
              ELSE sec
    IN  IF s1.list_type = "ul"
        THEN [s1 EXCEPT !.blocks = Append(@, << "</ul>" >>), !.list_type = "None"]
        ELSE IF s1.list_type = "ol"
        THEN [s1 EXCEPT !.blocks = Append(@, << "</ol>" >>), !.list_type = "None"]
        ELSE s1

close_open_blocks(sec) ==
    LET s1 == IF sec.in_code
              THEN [sec EXCEPT !.blocks = Append(@, CodeBlock(sec.code_buf)),
                               !.in_code = FALSE,
                               !.code_buf = << >>]
              ELSE sec
        s2 == IF s1.list_type = "ul"
              THEN [s1 EXCEPT !.blocks = Append(@, << "</ul>" >>),
                              !.list_type = "None"]
              ELSE IF s1.list_type = "ol"
              THEN [s1 EXCEPT !.blocks = Append(@, << "</ol>" >>),
                              !.list_type = "None"]
              ELSE s1
    IN  IF s2.table_rows # << >>
        THEN [s2 EXCEPT !.blocks = Append(@, render_table(s2.table_rows)),
                        !.table_rows = << >>]
        ELSE s2

\* an add_paragraph that puts the paragraph before the blocks of the section
add_paragraph_prepended(sec, text_line) ==
    IF Strip(text_line) = << >> THEN sec
    ELSE [sec EXCEPT !.blocks =
            << << "<p>" >> \o html_escape(Strip(text_line)) \o << "</p>" >> >> \o @]

add_paragraph(sec, text_line) ==
    IF Strip(text_line) = << >> THEN sec
    ELSE [sec EXCEPT !.blocks =
            Append(@, << "<p>" >> \o html_escape(Strip(text_line)) \o << "</p>" >>)]

\* line.strip().startswith three backticks
IsFence(line) ==
    LET s == Strip(line)
    IN  Len(s) >= 3 /\ SubSeq(s, 1, 3) = << Backtick, Backtick, Backtick >>

\* lines 293-295: a line that is no table row flushes the open table
FlushTable(sec) ==
    IF sec.table_rows # << >>
    THEN [sec EXCEPT !.blocks = Append(@, render_table(sec.table_rows)),
                     !.table_rows = << >>]
    ELSE sec

\* lines 301-314: an item of the list kind ("ul" or "ol")
ListItem(sec, kind, item) ==
    LET opened == IF sec.list_type # kind
                  THEN [close_open_blocks(sec) EXCEPT
                            !.blocks = Append(@, << "<" \o kind \o ">" >>),
                            !.list_type = kind]
                  ELSE sec
    IN  [opened EXCEPT !.blocks =
            Append(@, << "<li>" >> \o html_escape(item) \o << "</li>" >>)]

\* a loop that leaves the list open at a line that is no list item
CloseList_kept_open(sec) == sec

\* lines 316-321: a line that is no list item closes the open list
CloseList(sec) ==
    IF sec.list_type # "None"
    THEN [sec EXCEPT !.blocks = Append(@, IF sec.list_type = "ul"
                                          THEN << "</ul>" >> ELSE << "</ol>" >>),
                     !.list_type = "None"]
    ELSE sec

\* line 325: label line.split(':',1)[0], body ':'.join(line.split(':')[1:]).strip()
Callout(line) ==
    LET parts == SplitOn(line, ":")
    IN  << "<div class='callout'>", "<strong>" >>
        \o html_escape(parts[1])
        \o << ":", "</strong>", " " >>
        \o html_escape(Strip(JoinWith(Tail(parts), << ":" >>)))
        \o << "</div>" >>

\* lines 323-332: callout, paragraph or spacer
PlainBlock(sec, line) ==
    IF IsCallout(line)
    THEN [sec EXCEPT !.blocks = Append(@, Callout(line))]
    ELSE IF Strip(line) # << >>
    THEN add_paragraph(sec, line)
    ELSE [sec EXCEPT !.blocks = Append(@, << "<div class='spacer'>", "</div>" >>)]

\* ------------------------------------------------------------------------
\* build_nav (lines 341-377)
\* ------------------------------------------------------------------------
open_ul(st) ==
    [st EXCEPT !.html_nav = Append(@, "<ul class='toc'>"),
               !.level_stack = Append(@, 1)]

close_ul(st) ==
    IF Len(st.level_stack) > 1
    THEN [st EXCEPT !.html_nav = Append(@, "</ul>"),
                    !.level_stack = SubSeq(@, 1, Len(@) - 1)]
    ELSE st

\* a clamp that has lost its upper limit: max(1, level)
ClampLevel_no_upper(level) == IF level > 1 THEN level ELSE 1

\* max(1, min(6, level))
ClampLevel(level) ==
    LET m == IF level < 6 THEN level ELSE 6
    IN  IF m > 1 THEN m ELSE 1

RECURSIVE NavAdjust(_, _)
\* the two while loops of lines 362-367
NavAdjust(st, lvl) ==
    IF lvl > st.prev_level
    THEN NavAdjust([open_ul(st) EXCEPT !.prev_level = @ + 1], lvl)
    ELSE IF lvl < st.prev_level
    THEN NavAdjust([close_ul(st) EXCEPT !.prev_level = @ - 1], lvl)
    ELSE st

\* a navigation that leaves out the sections deeper than the clamp
NavEntry_deep_skipped(sec) ==
    IF sec.level > 6 THEN << >>
    ELSE << "<li>", "<a href='#" >> \o sec.id \o << "' data-target='" >> \o sec.id
             \o << "'>" >> \o html_escape(sec.title) \o << "</a>", "</li>" >>

\* a navigation entry whose anchor is made from the title again instead of
\* taken from the section
NavEntry_id_recomputed(sec) ==
    << "<li>", "<a href='#" >> \o slugify(sec.title, << "f", "f", "f", "f", "f", "f", "f", "f" >>)
        \o << "' data-target='" >> \o sec.id
        \o << "'>" >> \o html_escape(sec.title) \o << "</a>", "</li>" >>

\* the link entry of lines 369-373
NavEntry(sec) ==
    << "<li>", "<a href='#" >> \o sec.id \o << "' data-target='" >> \o sec.id
        \o << "'>" >> \o html_escape(sec.title) \o << "</a>", "</li>" >>

RECURSIVE NavLoop(_, _, _)
\* the for loop of lines 356-373 from the i-th section on
NavLoop(secs, i, st) ==
    IF i > Len(secs) THEN st
    ELSE LET s1 == IF ~st.opened THEN [open_ul(st) EXCEPT !.opened = TRUE] ELSE st
             s2 == NavAdjust(s1, ClampLevel(secs[i].level))
         IN  NavLoop(secs, i + 1, [s2 EXCEPT !.html_nav = @ \o NavEntry(secs[i])])

RECURSIVE NavClose(_)
\* the while loop of lines 375-376
NavClose(st) ==
    IF Len(st.level_stack) > 1 THEN NavClose(close_ul(st)) ELSE st

build_nav(secs) ==
    NavClose(NavLoop(secs, 1, [html_nav |-> << >>, level_stack |-> << 0 >>,
                               prev_level |-> 1, opened |-> FALSE])).html_nav

\* ------------------------------------------------------------------------
\* build_html_report: the section containers (lines 384-389)
\* ------------------------------------------------------------------------
ContentBlock(sec) ==
    << "<section id='" >> \o sec.id
        \o << "' class='card level-", ToString(sec.level), "'>", "<h2>" >>
        \o html_escape(sec.title) \o << "</h2>" >> \o Flatten(sec.blocks)
        \o << "</section>" >>

\* ------------------------------------------------------------------------
\* Input texts
\* ------------------------------------------------------------------------
\* the largest number of lines of an input text
MaxLines == 3

\* the lines an input text is made of
InputLines ==
    { << >>,
      << "<", "s", ">" >>,
      << "-", " ", "a", "&" >>,
      << "1", ".", " ", "c", "<" >>,
      << "2", ".", "1", " ", "a" >>,
      << "1", ".", "1", ".", "1", ".", "1", ".", "1", ".", "1", ".", "1", ".", " ", "x" >>,
      << "#", "#", "#", " ", "&" >>,
      << "|", "a", "|", ">", "|" >>,
      << "|", "-", "-", "-", "|", "-", "-", "-", "|" >>,
      << Backtick, Backtick, Backtick >>,
      << "U+0412", "U+0430", "U+0436", "U+043D", "U+043E", ":", " ", "<" >> }

RECURSIVE LineSeqs(_)
\* the sequences of at most n input lines
LineSeqs(n) ==
    IF n = 0 THEN { << >> }
    ELSE LET shorter == LineSeqs(n - 1)
         IN  shorter \cup { Append(ls, l) : ls \in shorter, l \in InputLines }

\* the input texts: at most MaxLines lines joined by line ends
Texts == { JoinWith(ls, << NL >>) : ls \in LineSeqs(MaxLines) }

\* ------------------------------------------------------------------------
\* State
\* ------------------------------------------------------------------------
VARIABLES
    plain_text,      \* the text handed to the entry point
    caller,          \* the entry point called: build_html_report or parse_to_sections
    pc,              \* where the call stands
    lines,           \* text.splitlines() of line 180
    idx,             \* the index in lines of the line the loop of line 251 takes next
    sections,        \* the list "sections" of parse_to_sections
    current,         \* the section "current" of parse_to_sections
    content_blocks,  \* the list "content_blocks" of build_html_report
    nav_html         \* the string "nav_html" of build_html_report

\* NewsAggregator.search_company_news of news_aggregator.py
VARIABLES
    agg_pc,          \* where the call of search_company_news stands
    company_name,    \* the argument company_name
    days_back,       \* the argument days_back
    entries,         \* the feed entries or page elements the running search loops over
    e_idx,           \* the index in entries of the one the loop takes next
    news_items,      \* the list "news_items" of the running search
    all_news,        \* the list "all_news" of search_company_news
    summary          \* what search_company_news returns

\* a sequence of calls of parse_to_sections
VARIABLES
    results          \* the text and the returned list of each call that has returned

render_vars == << plain_text, caller, pc, lines, idx, sections, current,
                  content_blocks, nav_html >>

agg_vars == << agg_pc, company_name, days_back, entries, e_idx, news_items,
               all_news, summary >>

\* enrich_with_article_content of news_summary.py
VARIABLES
    en_pc,           \* where the call of enrich_with_article_content stands
    items,           \* the argument items: the link and the content of each
    max_workers,     \* the argument max_workers
    max_fetch,       \* the argument max_fetch
    targets,         \* the list "targets" of line 300
    futures,         \* the list "futures": the state and the outcome of each _fetch
    seen             \* the futures the loop over as_completed has taken

enrich_vars == << en_pc, items, max_workers, max_fetch, targets, futures, seen >>

\* fetch_news_from_sources of news_summary.py
VARIABLES
    fn_pc,                 \* where the call of fetch_news_from_sources stands
    max_items_per_source,  \* the argument max_items_per_source
    responses,             \* what the request of each feed fetched so far gave
    all_items,             \* the list "items" of line 278
    unique_items,          \* the list "unique_items"
    fn_seen                \* the set "seen" of line 283

fetch_vars == << fn_pc, max_items_per_source, responses, all_items,
                 unique_items, fn_seen >>

\* main of analyze_company_combined.py
VARIABLES
    m_pc,            \* where main stands
    pdf_exists,      \* whether os.path.exists(args.pdf_path) holds
    output_html,     \* the path args.output_html; args.output_txt is TxtPath
    token,           \* the local "token"
    rss_entries,     \* the local "entries": the number of feed entries
    pdf_text,        \* the local "pdf_text"
    combined_plain,  \* the local "combined_plain"
    calls,           \* the requests sent and the files read and written, in order
    files,           \* what each output path holds
    exit_status      \* the exit status of the process

main_vars == << m_pc, pdf_exists, output_html, token, rss_entries, pdf_text,
                combined_plain, calls, files, exit_status >>

\* the variables of the other programs and of the sequence of calls
rest_vars == << results, enrich_vars, fetch_vars, main_vars >>

vars == << render_vars, agg_vars, rest_vars >>

\* no call of search_company_news is under way
AggIdle ==
    /\ agg_pc = "idle"
    /\ company_name = << >>
    /\ days_back = 0
    /\ entries = << >>
    /\ e_idx = 0
    /\ news_items = << >>
    /\ all_news = << >>
    /\ summary = << >>

\* neither build_html_report nor parse_to_sections is called
RenderIdle ==
    /\ plain_text = << >>
    /\ caller = "none"
    /\ pc = "idle"
    /\ lines = << >>
    /\ idx = 0
    /\ sections = << >>
    /\ current = None
    /\ content_blocks = << >>
    /\ nav_html = << >>

\* no call of enrich_with_article_content is under way
EnrichIdle ==
    /\ en_pc = "idle"
    /\ items = << >>
    /\ max_workers = 0
    /\ max_fetch = 0
    /\ targets = << >>
    /\ futures = << >>
    /\ seen = {}

\* no call of fetch_news_from_sources is under way
FetchIdle ==
    /\ fn_pc = "idle"
    /\ max_items_per_source = 0
    /\ responses = << >>
    /\ all_items = << >>
    /\ unique_items = << >>
    /\ fn_seen = {}

\* main does not run
MainIdle ==
    /\ m_pc = "idle"
    /\ pdf_exists = FALSE
    /\ output_html = "none"
    /\ token = "none"
    /\ rss_entries = 0
    /\ pdf_text = "none"
    /\ combined_plain = << >>
    /\ calls = << >>
    /\ files = << >>
    /\ exit_status = "none"

\* nothing but the call the specification is about has run
RestIdle ==
    /\ results = << >>
    /\ EnrichIdle
    /\ FetchIdle
    /\ MainIdle

Init ==
    /\ plain_text \in Texts \cup {PyNone}
    /\ caller = "none"
    /\ pc = "call"
    /\ lines = << >>
    /\ idx = 0
    /\ sections = << >>
    /\ current = None
    /\ content_blocks = << >>
    /\ nav_html = << >>
    /\ AggIdle
    /\ RestIdle

\* a start_section that does not append the section it replaces
start_section_not_appended(title, level, hex8) ==
    /\ sections' = sections
    /\ current' = NewSection(title, level, hex8)

\* a start_section that keeps ids apart: an id already given to a section
\* gets a suffix
start_section_deduplicated(title, level, hex8) ==
    LET sec  == NewSection(title, level, hex8)
        used == \/ \E i \in 1..Len(sections) : sections[i].id = sec.id
                \/ current # None /\ current.id = sec.id
    IN  /\ sections' = IF current # None
                       THEN Append(sections, close_open_blocks(current))
                       ELSE sections
        /\ current' = IF used THEN [sec EXCEPT !.id = @ \o << "-", "2" >>] ELSE sec

\* start_section(title, level) of lines 184-198
start_section(title, level, hex8) ==
    /\ sections' = IF current # None
                   THEN Append(sections, close_open_blocks(current))
                   ELSE sections
    /\ current' = NewSection(title, level, hex8)

\* a parse_to_sections whose list of sections outlives the call
call_parse_to_sections_list_kept ==
    /\ pc = "call"
    /\ plain_text # PyNone
    /\ caller' = "parse_to_sections"
    /\ lines' = splitlines(plain_text)
    /\ pc' = "start"
    /\ current' = None
    /\ UNCHANGED << plain_text, idx, sections, content_blocks, nav_html >>
    /\ UNCHANGED << agg_vars, rest_vars >>

\* parse_to_sections(text) called on the input as it is: lines 180-182; the
\* argument is a str, None is only ever passed to build_html_report
call_parse_to_sections ==
    /\ pc = "call"
    /\ plain_text # PyNone
    /\ caller' = "parse_to_sections"
    /\ lines' = splitlines(plain_text)
    /\ pc' = "start"
    /\ sections' = << >>
    /\ current' = None
    /\ UNCHANGED << plain_text, idx, content_blocks, nav_html >>
    /\ UNCHANGED << agg_vars, rest_vars >>

\* build_html_report(plain_text): lines 381-382 up to the entry of
\* parse_to_sections
call_build_html_report ==
    /\ pc = "call"
    /\ caller' = "build_html_report"
    /\ lines' = splitlines(clean_text(plain_text))
    /\ pc' = "start"
    /\ sections' = << >>
    /\ current' = None
    /\ UNCHANGED << plain_text, idx, content_blocks, nav_html >>
    /\ UNCHANGED << agg_vars, rest_vars >>

\* a parse_to_sections that starts no default section
ParseBegin_no_default ==
    /\ pc = "start"
    /\ idx' = 1
    /\ pc' = "loop"
    /\ UNCHANGED << plain_text, caller, lines, sections, current, content_blocks,
                    nav_html >>
    /\ UNCHANGED << agg_vars, rest_vars >>

\* line 249
ParseBegin ==
    /\ pc = "start"
    /\ \E hex8 \in UuidHex8 : start_section(DefaultTitle, 1, hex8)
    /\ idx' = 1
    /\ pc' = "loop"
    /\ UNCHANGED << plain_text, caller, lines, content_blocks, nav_html >>
    /\ UNCHANGED << agg_vars, rest_vars >>

\* the line the loop of line 251 is at, and line 252
AtLine == pc = "loop" /\ idx <= Len(lines)
raw == lines[idx]
line == RStripCR(raw)

NextLine ==
    /\ idx' = idx + 1
    /\ UNCHANGED << plain_text, caller, pc, lines, content_blocks, nav_html >>
    /\ UNCHANGED << agg_vars, rest_vars >>

\* line 254: the line is a fence line
FenceRule == AtLine /\ IsFence(line)

\* a fence line that opens the code block without closing what is open
FenceLine_nothing_closed ==
    /\ AtLine
    /\ IsFence(line)
    /\ current' = IF ~current.in_code
                  THEN [current EXCEPT !.in_code = TRUE, !.code_buf = << >>]
                  ELSE [current EXCEPT !.blocks = Append(@, CodeBlock(current.code_buf)),
                                       !.in_code = FALSE,
                                       !.code_buf = << >>]
    /\ UNCHANGED sections
    /\ NextLine

\* lines 254-267: a fence line opens or closes the code block
FenceLine ==
    /\ FenceRule
    /\ current' = IF ~current.in_code
                  THEN [close_open_blocks(current) EXCEPT !.in_code = TRUE,
                                                          !.code_buf = << >>]
                  ELSE [current EXCEPT !.blocks = Append(@, CodeBlock(current.code_buf)),
                                       !.in_code = FALSE,
                                       !.code_buf = << >>]
    /\ UNCHANGED sections
    /\ NextLine

\* line 269, reached when line 254 did not take the line
CodeRule == AtLine /\ ~IsFence(line) /\ current.in_code

\* a code block that does not keep its blank lines
CodeLine_blank_skipped ==
    /\ CodeRule
    /\ current' = IF Strip(raw) = << >> THEN current
                  ELSE [current EXCEPT !.code_buf = Append(@, raw)]
    /\ UNCHANGED sections
    /\ NextLine

\* lines 269-271: inside the code block the raw line is buffered
CodeLine ==
    /\ CodeRule
    /\ current' = [current EXCEPT !.code_buf = Append(@, raw)]
    /\ UNCHANGED sections
    /\ NextLine

\* neither of the two rules above takes the line
PastCode == AtLine /\ ~FenceRule /\ ~CodeRule

\* a loop that leaves to the list rules the lines the ordered-list pattern
\* matches
NumHeadingRule_items_left == PastCode /\ _heading_num(line).ok /\ ~_ol_item(line).ok

\* lines 273-274
NumHeadingRule == PastCode /\ _heading_num(line).ok

\* lines 280-281, reached when line 274 did not take the line
MdHeadingRule == PastCode /\ ~NumHeadingRule /\ _heading_md(raw).ok

\* a numeric heading whose level is the number of dots of the numeral
NumHeadingLine_dots_counted ==
    /\ PastCode
    /\ _heading_num(line).ok
    /\ LET mnum == _heading_num(line)
           level == Count(mnum.g1, ".")
       IN  \E hex8 \in UuidHex8 :
               start_section(mnum.g1 \o << " " >> \o mnum.g2, level, hex8)
    /\ NextLine

\* lines 273-278
NumHeadingLine ==
    /\ NumHeadingRule
    /\ LET mnum == _heading_num(line)
           level == Len(SplitOn(mnum.g1, "."))
       IN  \E hex8 \in UuidHex8 :
               start_section(mnum.g1 \o << " " >> \o mnum.g2, level, hex8)
    /\ NextLine

\* lines 280-285
MdHeadingLine ==
    /\ MdHeadingRule
    /\ LET mmd == _heading_md(raw)
       IN  \E hex8 \in UuidHex8 : start_section(mmd.g2, Len(mmd.g1), hex8)
    /\ NextLine

\* a loop whose numeric-heading rule does not end with "continue": the line
\* goes on to the rules below
PastHeadings_no_continue == PastCode /\ ~MdHeadingRule

\* neither heading rule takes the line
PastHeadings == PastCode /\ ~NumHeadingRule /\ ~MdHeadingRule

\* line 287
TableRowRule == PastHeadings /\ _table_row(line).ok

\* lines 293-332, reached when line 287 did not take the line
BodyRule == PastHeadings /\ ~TableRowRule

\* lines 287-292
TableRowLine ==
    /\ TableRowRule
    /\ LET opened == IF current.table_rows = << >>
                     THEN close_open_blocks(current)
                     ELSE current
       IN  current' = [opened EXCEPT !.table_rows = Append(@, line)]
    /\ UNCHANGED sections
    /\ NextLine

\* a loop whose table branch does not drop the blank line that ends a
\* table: the line goes on to the rules below and becomes a spacer
BodyLine_blank_spacer ==
    /\ BodyRule
    /\ LET flushed == FlushTable(current)
           mul == _ul_item(line)
           mol == _ol_item(line)
       IN  current' =
             IF mul.ok THEN ListItem(flushed, "ul", mul.g1)
             ELSE IF mol.ok THEN ListItem(flushed, "ol", mol.g1)
             ELSE PlainBlock(CloseList(flushed), line)
    /\ UNCHANGED sections
    /\ NextLine

\* lines 293-332 for a line that is no table row: the open table is flushed
\* and a blank line that ended a table is dropped; otherwise the line is a
\* list item, or it closes the open list and becomes a callout, a paragraph
\* or a spacer
BodyLine ==
    /\ BodyRule
    /\ LET flushed == FlushTable(current)
           mul == _ul_item(line)
           mol == _ol_item(line)
       IN  current' =
             IF current.table_rows # << >> /\ Strip(line) = << >> THEN flushed
             ELSE IF mul.ok THEN ListItem(flushed, "ul", mul.g1)
             ELSE IF mol.ok THEN ListItem(flushed, "ol", mol.g1)
             ELSE PlainBlock(CloseList(flushed), line)
    /\ UNCHANGED sections
    /\ NextLine

\* lines 334-338: the last section is closed and appended, the list returned
ParseEnd ==
    /\ pc = "loop"
    /\ idx > Len(lines)
    /\ current' = IF current # None THEN close_open_blocks(current) ELSE current
    /\ sections' = IF current # None
                   THEN Append(sections, close_open_blocks(current))
                   ELSE sections
    /\ pc' = "returned"
    /\ UNCHANGED << plain_text, caller, lines, idx, content_blocks, nav_html >>
    /\ UNCHANGED << agg_vars, rest_vars >>

\* lines 384-391 of build_html_report
BuildReport ==
    /\ pc = "returned"
    /\ caller = "build_html_report"
    /\ content_blocks' = [i \in 1..Len(sections) |-> ContentBlock(sections[i])]
    /\ nav_html' = build_nav(sections)
    /\ pc' = "report"
    /\ UNCHANGED << plain_text, caller, lines, idx, sections, current >>
    /\ UNCHANGED << agg_vars, rest_vars >>

Next ==
    \/ call_parse_to_sections
    \/ call_build_html_report
    \/ ParseBegin
    \/ FenceLine
    \/ CodeLine
    \/ NumHeadingLine
    \/ MdHeadingLine
    \/ TableRowLine
    \/ BodyLine
    \/ ParseEnd
    \/ BuildReport

Spec == Init /\ [][Next]_vars


RECURSIVE SeqsOf(_, _)
\* the sequences of at most n elements of S
SeqsOf(S, n) ==
    IF n = 0 THEN { << >> }
    ELSE LET shorter == SeqsOf(S, n - 1)
         IN  shorter \cup { Append(s, x) : s \in shorter, x \in S }

\* ------------------------------------------------------------------------
\* The renderer on a second set of lines: headings closed by ')' or led by
\* whitespace, headings of one, six and seven hashes, and callout lines
\* with each separator of line 323
\* ------------------------------------------------------------------------
MoreLines ==
    { << >>,
      << " ", "2", ".", "1", ")", " ", "a" >>,
      << "7", ".", "\t", "b", " " >>,
      << "#", " ", "&" >>,
      << "#", "#", "#", "#", "#", "#", " ", "c" >>,
      << "#", "#", "#", "#", "#", "#", "#", " ", "d" >>,
      << "|", "a", "|" >>,
      << Backtick, Backtick, Backtick >>,
      << "U+0412", "U+0430", "U+0436", "U+043D", "U+043E", " ", "-", " ", "<" >>,
      << " ", "U+0412", "U+0430", "U+0436", "U+043D", "U+043E", ":", " ", "a", ":", "b" >>,
      << "U+043F", "U+0440", "U+0438", "U+043C", "U+0435", "U+0447", "U+0430", "U+043D",
         "U+0438", "U+0435", "U+2013", "&" >> }

\* the input texts made of at most MaxLines of these lines
MoreTexts == { JoinWith(ls, << NL >>) : ls \in SeqsOf(MoreLines, MaxLines) }

MoreInit ==
    /\ plain_text \in MoreTexts
    /\ caller = "none"
    /\ pc = "call"
    /\ lines = << >>
    /\ idx = 0
    /\ sections = << >>
    /\ current = None
    /\ content_blocks = << >>
    /\ nav_html = << >>
    /\ AggIdle
    /\ RestIdle

MoreSpec == MoreInit /\ [][Next]_vars

\* ------------------------------------------------------------------------
\* The renderer on lines that begin with hashes: what clean_text leaves of
\* the line is a numeric heading, a hash heading, a paragraph, a list item,
\* a table row or a callout; of a line of seven hashes it leaves a hash
\* heading, here one whose title leaves no slug
\* ------------------------------------------------------------------------
HashLines ==
    { << >>,
      << "#", "#", " ", "1", ".", " ", "x" >>,
      << "#", " ", "#", " ", "x" >>,
      << "#", "#", "#", " ", "&" >>,
      << "#", "#", " ", "-", " ", "a" >>,
      << "#", " ", "|", "a", "|" >>,
      << "#", "#", "#", "#", " ", "U+0412", "U+0430", "U+0436", "U+043D", "U+043E", ":", " ", "<" >>,
      << "#", "#", "#", "#", "#", "#", "#", " ", "&" >>,
      << Backtick, Backtick, Backtick >> }

\* the input texts made of at most MaxLines of these lines
HashTexts == { JoinWith(ls, << NL >>) : ls \in SeqsOf(HashLines, MaxLines) }

HashInit ==
    /\ plain_text \in HashTexts
    /\ caller = "none"
    /\ pc = "call"
    /\ lines = << >>
    /\ idx = 0
    /\ sections = << >>
    /\ current = None
    /\ content_blocks = << >>
    /\ nav_html = << >>
    /\ AggIdle
    /\ RestIdle

HashSpec == HashInit /\ [][Next]_vars

\* ------------------------------------------------------------------------
\* start_section called on its own, on any title
\* ------------------------------------------------------------------------
\* the largest length of a title handed to start_section
MaxTitle == 3

\* the characters of these titles: letters, one of them with a combining
\* mark in its decomposition, whitespace, the characters slugify keeps or
\* strips, and characters it removes
TitleChars == {"a", "D", "U+0439", " ", "\t", "-", ".", "_", "'", "<", "&"}

Titles == SeqsOf(TitleChars, MaxTitle)

\* plain_text holds the title handed to the call
SlugInit ==
    /\ plain_text \in Titles
    /\ caller = "start_section"
    /\ pc = "slug_call"
    /\ lines = << >>
    /\ idx = 0
    /\ sections = << >>
    /\ current = None
    /\ content_blocks = << >>
    /\ nav_html = << >>
    /\ AggIdle
    /\ RestIdle

\* start_section(title, 1) of lines 184-198, slugify (lines 66-72) included
call_start_section ==
    /\ pc = "slug_call"
    /\ \E hex8 \in UuidHex8 : start_section(plain_text, 1, hex8)
    /\ pc' = "slug_returned"
    /\ UNCHANGED << plain_text, caller, lines, idx, content_blocks, nav_html >>
    /\ UNCHANGED << agg_vars, rest_vars >>

SlugNext == call_start_section

SlugSpec == SlugInit /\ [][SlugNext]_vars

\* ------------------------------------------------------------------------
\* parse_to_sections called several times in a row
\* ------------------------------------------------------------------------
\* the largest number of calls in a row
MaxCalls == 3

\* the texts of these calls
CallTexts ==
    { << >>,
      << "<", "s", ">" >>,
      << "#", "#", "#", " ", "&" >>,
      << "1", ".", " ", "c", "<", NL, "-", " ", "a", "&" >>,
      << "#", "#", "#", " ", "&", NL, "|", "a", "|", ">", "|" >>,
      << Backtick, Backtick, Backtick, NL, "#", "#", "#", " ", "&" >> }

CallsInit ==
    /\ plain_text \in CallTexts
    /\ caller = "none"
    /\ pc = "call"
    /\ lines = << >>
    /\ idx = 0
    /\ sections = << >>
    /\ current = None
    /\ content_blocks = << >>
    /\ nav_html = << >>
    /\ AggIdle
    /\ RestIdle

\* the call has returned and the caller calls again, on any text; what the
\* locals of the call that returned held is of no use to the next call,
\* which sets them at lines 180-182
NextCall ==
    /\ pc = "returned"
    /\ caller = "parse_to_sections"
    /\ Len(results) + 1 < MaxCalls
    /\ results' = Append(results, [text |-> plain_text, sections |-> sections])
    /\ plain_text' \in CallTexts
    /\ caller' = "none"
    /\ pc' = "call"
    /\ UNCHANGED << lines, idx, sections, current, content_blocks, nav_html >>
    /\ UNCHANGED << agg_vars, enrich_vars, fetch_vars, main_vars >>

CallsNext ==
    \/ call_parse_to_sections
    \/ ParseBegin
    \/ FenceLine
    \/ CodeLine
    \/ NumHeadingLine
    \/ MdHeadingLine
    \/ TableRowLine
    \/ BodyLine
    \/ ParseEnd
    \/ NextCall

CallsSpec == CallsInit /\ [][CallsNext]_vars

\* ------------------------------------------------------------------------
\* The renderer on every short line of digits, dots, spaces and letters,
\* met first, in a code block, after a table row, after a hash heading or
\* in an open list
\* ------------------------------------------------------------------------
\* the largest length of such a line
MaxOlLen == 5

OlChars == {"1", ".", " ", "a"}

\* what comes before the line: nothing, or one line and its line end
Prefixes ==
    { << >>,
      << Backtick, Backtick, Backtick, NL >>,
      << "|", "a", "|", NL >>,
      << "#", " ", "a", NL >>,
      << "-", " ", "x", NL >> }

OlTexts == { p \o l : p \in Prefixes, l \in SeqsOf(OlChars, MaxOlLen) }

OlInit ==
    /\ plain_text \in OlTexts
    /\ caller = "none"
    /\ pc = "call"
    /\ lines = << >>
    /\ idx = 0
    /\ sections = << >>
    /\ current = None
    /\ content_blocks = << >>
    /\ nav_html = << >>
    /\ AggIdle
    /\ RestIdle

OlSpec == OlInit /\ [][Next]_vars

\* ------------------------------------------------------------------------
\* build_nav called on its own, on any list of sections
\* ------------------------------------------------------------------------
\* the largest number of sections of a list handed to build_nav
MaxSections == 3

\* the largest level of a section handed to build_nav
MaxLevel == 8

\* the sections build_nav is called on: start_section's dict for a title
\* and any level
NavSections ==
    { NewSection(<< "a", "&" >>, level, hex8) : level \in 1..MaxLevel, hex8 \in UuidHex8 }

RECURSIVE SectionSeqs(_)
\* the lists of at most n sections
SectionSeqs(n) ==
    IF n = 0 THEN { << >> }
    ELSE LET shorter == SectionSeqs(n - 1)
         IN  shorter \cup { Append(secs, sec) : secs \in shorter, sec \in NavSections }

NavInit ==
    /\ plain_text = << >>
    /\ caller = "build_nav"
    /\ pc = "nav_call"
    /\ lines = << >>
    /\ idx = 0
    /\ sections \in SectionSeqs(MaxSections)
    /\ current = None
    /\ content_blocks = << >>
    /\ nav_html = << >>
    /\ AggIdle
    /\ RestIdle

\* build_nav(sections): lines 341-377
call_build_nav ==
    /\ pc = "nav_call"
    /\ nav_html' = build_nav(sections)
    /\ pc' = "nav_returned"
    /\ UNCHANGED << plain_text, caller, lines, idx, sections, current, content_blocks >>
    /\ UNCHANGED << agg_vars, rest_vars >>

NavNext == call_build_nav

NavSpec == NavInit /\ [][NavNext]_vars

\* ------------------------------------------------------------------------
\* news_aggregator.py: NewsAggregator.search_company_news and what it calls.
\* A title, a link and a description are texts; a date is a day number, the
\* string strftime('%Y-%m-%d %H:%M') makes of it being the record of its day
\* and its time of day, and split(' ')[0] of that string the day.
\* ------------------------------------------------------------------------
\* datetime.now(), as a day number
Today == 10

\* str.upper() of one character
UpperChar(c) ==
    CASE c = "a" -> "A"
      [] c = "b" -> "B"
      [] c = "d" -> "D"
      [] c = "x" -> "X"
      [] OTHER -> c

Upper(t) == [i \in 1..Len(t) |-> UpperChar(t[i])]

Lower(t) == [i \in 1..Len(t) |-> LowerChar(t[i])]

\* "sub in t" of two strings
Contains(t, sub) ==
    \E p \in 1..(Len(t) - Len(sub) + 1) : SubSeq(t, p, p + Len(sub) - 1) = sub

RECURSIVE SortedDesc(_)
\* sorted(keys, reverse=True) of a set of day numbers
SortedDesc(days) ==
    IF days = {} THEN << >>
    ELSE LET top == CHOOSE d \in days : \A o \in days : o <= d
         IN  << top >> \o SortedDesc(days \ {top})

\* the character "=" or "-" repeated n times
Repeat(c, n) == [i \in 1..n |-> c]

\* the length above which summarize_news cuts a description (line 174)
DescLimit == 200

\* keywords_analysis of lines 185-190: the themes, in the order of the dict,
\* each with its keywords (the theme names are written in Latin letters:
\* финансы, развитие, проблемы, партнерство)
Themes == << "finansy", "razvitie", "problemy", "partnerstvo" >>

Keywords(theme) ==
    CASE theme = "finansy" ->
           { << "U+043F", "U+0440", "U+0438", "U+0431", "U+044B", "U+043B", "U+044C" >>,
             << "U+0443", "U+0431", "U+044B", "U+0442", "U+043E", "U+043A" >>,
             << "U+0434", "U+043E", "U+0445", "U+043E", "U+0434", "U+044B" >>,
             << "U+0432", "U+044B", "U+0440", "U+0443", "U+0447", "U+043A", "U+0430" >>,
             << "U+0438", "U+043D", "U+0432", "U+0435", "U+0441", "U+0442", "U+0438", "U+0446", "U+0438", "U+0438" >>,
             << "U+0430", "U+043A", "U+0446", "U+0438", "U+0438" >>,
             << "U+043A", "U+0430", "U+043F", "U+0438", "U+0442", "U+0430", "U+043B" >> }
      [] theme = "razvitie" ->
           { << "U+0440", "U+0430", "U+0441", "U+0448", "U+0438", "U+0440", "U+0435", "U+043D", "U+0438", "U+0435" >>,
             << "U+0440", "U+043E", "U+0441", "U+0442" >>,
             << "U+0440", "U+0430", "U+0437", "U+0432", "U+0438", "U+0442", "U+0438", "U+0435" >>,
             << "U+0437", "U+0430", "U+043F", "U+0443", "U+0441", "U+043A" >>,
             << "U+043E", "U+0442", "U+043A", "U+0440", "U+044B", "U+0442", "U+0438", "U+0435" >>,
             << "U+043D", "U+043E", "U+0432", "U+044B", "U+0439" >> }
      [] theme = "problemy" ->
           { << "U+043F", "U+0440", "U+043E", "U+0431", "U+043B", "U+0435", "U+043C", "U+044B" >>,
             << "U+043A", "U+0440", "U+0438", "U+0437", "U+0438", "U+0441" >>,
             << "U+0443", "U+0431", "U+044B", "U+0442", "U+043A", "U+0438" >>,
             << "U+0441", "U+043E", "U+043A", "U+0440", "U+0430", "U+0449", "U+0435", "U+043D", "U+0438", "U+0435" >>,
             << "U+0437", "U+0430", "U+043A", "U+0440", "U+044B", "U+0442", "U+0438", "U+0435" >>,
             << "U+0431", "U+0430", "U+043D", "U+043A", "U+0440", "U+043E", "U+0442", "U+0441", "U+0442", "U+0432", "U+043E" >> }
      [] theme = "partnerstvo" ->
           { << "U+0441", "U+0434", "U+0435", "U+043B", "U+043A", "U+0430" >>,
             << "U+043F", "U+0430", "U+0440", "U+0442", "U+043D", "U+0435", "U+0440", "U+0441", "U+0442", "U+0432", "U+043E" >>,
             << "U+0441", "U+043E", "U+0433", "U+043B", "U+0430", "U+0448", "U+0435", "U+043D", "U+0438", "U+0435" >>,
             << "U+043A", "U+043E", "U+043D", "U+0442", "U+0440", "U+0430", "U+043A", "U+0442" >>,
             << "U+0441", "U+043E", "U+0442", "U+0440", "U+0443", "U+0434", "U+043D", "U+0438", "U+0447", "U+0435", "U+0441", "U+0442", "U+0432", "U+043E" >> }

\* the message of line 145 ("Новости по компании '...' не найдены.")
NotFound(company) == << "Novosti po kompanii '" >> \o company \o << "' ne naideny." >>

\* lines 170-176: the i-th news of a day
SummaryItem(i, news) ==
    << ToString(i), ". ", "[news] " >> \o news.title \o << NL >>
    \o << "   ", "[link] ", "Istochnik: ", news.source, NL >>
    \o (IF news.description # << >>
        THEN << "   ", "[memo] " >>
             \o (IF Len(news.description) > DescLimit
                 THEN SubSeq(news.description, 1, DescLimit) \o << ".", ".", "." >>
                 ELSE news.description)
             \o << NL >>
        ELSE << >>)
    \o << "   ", "[globe] " >> \o news.link \o << NL, NL >>

\* summarize_news(news_items, company_name) of lines 142-204
summarize_news(itemlist, company) ==
    IF itemlist = << >> THEN NotFound(company)
    ELSE LET dates == {itemlist[i].published.date : i \in 1..Len(itemlist)}
             sorted_dates == SortedDesc(dates)
             \* news_by_date[date]: the news of the day, in the order of the list
             OnDay(date) == LET Is(news) == news.published.date = date
                            IN  SelectSeq(itemlist, Is)
             DayItems(news) == Flatten([i \in 1..Len(news) |-> SummaryItem(i, news[i])])
             Day(date) ==
                 << "[calendar] ", ToString(date), NL >> \o Repeat("-", 20) \o << NL >>
                 \o DayItems(OnDay(date))
             all_titles == JoinWith([i \in 1..Len(itemlist) |-> Lower(itemlist[i].title)],
                                    << " " >>)
             Found(theme) == \E keyword \in Keywords(theme) : Contains(all_titles, keyword)
             found_themes == LET Is(theme) == Found(theme) IN SelectSeq(Themes, Is)
         IN  << NL, "[office] ", "SVODKA NOVOSTEI PO KOMPANII: " >> \o Upper(company)
             \o << NL >> \o Repeat("=", 60) \o << NL, NL >>
             \o << "[chart] ", "Vsego naideno novostei: ", ToString(Len(itemlist)), NL >>
             \o << "[calendar] ", "Period: ", ToString(sorted_dates[Len(sorted_dates)]),
                   " - ", ToString(sorted_dates[1]), NL, NL >>
             \o Flatten([d \in 1..Len(sorted_dates) |-> Day(sorted_dates[d])])
             \o << NL, "[chart] ", "KRATKII ANALIZ:", NL >> \o Repeat("-", 20) \o << NL >>
             \o (IF found_themes # << >>
                 THEN << "[search] ", "Osnovnye temy: " >>
                      \o JoinWith([i \in 1..Len(found_themes) |-> << found_themes[i] >>],
                                  << ", " >>)
                      \o << NL >>
                 ELSE << "[search] ", "Osnovnye temy: obshchie novosti", NL >>)
             \o << "[clock] ", "Svodka sozdana: ", ToString(Today), NL >>

\* the largest number of entries of a feed and of elements of a page
MaxEntries == 2

\* feed.entries[:20] of line 47 and news_elements[:10] of line 85
GoogleLimit == 20
YandexLimit == 10

\* s[:n]
Prefix(s, n) == SubSeq(s, 1, IF Len(s) < n THEN Len(s) ELSE n)

\* the entries a Google News feed can hold.  shape tells what the entry
\* lacks: nothing ("full"), published_parsed ("no_date"), a date that
\* datetime() accepts ("bad_date") or the attribute title ("no_title"); age
\* is the number of days since it was published.
GoogleEntries ==
    { [shape |-> "full", title |-> << "D", "a", " ", "x" >>, link |-> << "g1" >>,
       age |-> 0, summary |-> << "s" >>],
      [shape |-> "full", title |-> << " ", "d", "a", " ", "x" >>, link |-> << "g2" >>,
       age |-> 5, summary |-> << >>],
      [shape |-> "no_date",
       title |-> << "D", "a", " ", "U+0440", "U+043E", "U+0441", "U+0442" >>,
       link |-> << "g3" >>, age |-> 9, summary |-> << >>],
      [shape |-> "bad_date", title |-> << "D", "a", " ", "b" >>, link |-> << "g4" >>,
       age |-> 0, summary |-> << >>],
      [shape |-> "no_title", title |-> << >>, link |-> << "g5" >>,
       age |-> 0, summary |-> << >>] }

\* the h2/h3 elements a Yandex News page can hold: with an <a> in it or
\* not, its text (get_text(strip=True)) and the href of the <a>
PageElements ==
    { [has_link |-> TRUE, title |-> << "d", "a", " ", "x" >>, href |-> << "y1" >>],
      [has_link |-> TRUE, title |-> << "d", "b" >>, href |-> << "y2" >>],
      [has_link |-> FALSE, title |-> << "D", "a", " ", "c" >>, href |-> << >>],
      [has_link |-> TRUE, title |-> << "x", " ", "D", "A" >>, href |-> << >>] }

\* a call of search_company_news about to begin
NewsInit ==
    /\ plain_text = << >>
    /\ caller = "none"
    /\ pc = "idle"
    /\ lines = << >>
    /\ idx = 0
    /\ sections = << >>
    /\ current = None
    /\ content_blocks = << >>
    /\ nav_html = << >>
    /\ agg_pc = "call"
    /\ company_name = << "D", "a" >>
    /\ days_back \in {3, 7}
    /\ entries = << >>
    /\ e_idx = 0
    /\ news_items = << >>
    /\ all_news = << >>
    /\ summary = << >>
    /\ RestIdle

\* lines 208-213: search_company_news calls search_google_news
call_search_company_news ==
    /\ agg_pc = "call"
    /\ all_news' = << >>
    /\ news_items' = << >>
    /\ agg_pc' = "google_query"
    /\ UNCHANGED << company_name, days_back, entries, e_idx, summary >>
    /\ UNCHANGED << render_vars, rest_vars >>

\* a search returns its news_items, which search_company_news appends to
\* all_news (lines 68, 214 and 104, 219), and the call goes on at "next"
ReturnItems(next) ==
    /\ all_news' = all_news \o news_items
    /\ news_items' = << >>
    /\ agg_pc' = next

\* lines 34-45 of search_google_news: feedparser.parse raises, which line 65
\* catches, or gives a feed
GoogleQuery ==
    /\ agg_pc = "google_query"
    /\ \/ /\ ReturnItems("yandex_query")
          /\ UNCHANGED << entries, e_idx >>
       \/ \E feed \in SeqsOf(GoogleEntries, MaxEntries) :
              /\ entries' = Prefix(feed, GoogleLimit)
              /\ e_idx' = 1
              /\ agg_pc' = "google_loop"
              /\ UNCHANGED << news_items, all_news >>
    /\ UNCHANGED << company_name, days_back, summary >>
    /\ UNCHANGED << render_vars, rest_vars >>

\* the dict of lines 53-59
GoogleItem(entry, date) ==
    [title |-> entry.title, link |-> entry.link,
     published |-> [date |-> date, time |-> "hh:mm"],
     source |-> "Google News", description |-> entry.summary]

\* the entry or element the loop of the running search is at
AtEntry(where) == agg_pc = where /\ e_idx <= Len(entries)

\* lines 50-52: the date of an entry, and whether it is recent enough
PubDate(entry) == IF entry.shape = "no_date" THEN Today ELSE Today - entry.age
Recent(entry) == PubDate(entry) >= Today - days_back

\* lines 50-60 raise on this entry: datetime() refuses the date, or the
\* entry is recent and has no title
EntryRaises(entry) ==
    \/ entry.shape = "bad_date"
    \/ Recent(entry) /\ entry.shape = "no_title"

\* a loop without the try of line 48: what an entry raises reaches the
\* except of line 65, which ends the search with the items it has
GoogleEntry_uncaught ==
    /\ AtEntry("google_loop")
    /\ LET entry == entries[e_idx]
       IN  IF EntryRaises(entry)
           THEN /\ ReturnItems("yandex_query")
                /\ UNCHANGED e_idx
           ELSE /\ news_items' = IF Recent(entry)
                                 THEN Append(news_items, GoogleItem(entry, PubDate(entry)))
                                 ELSE news_items
                /\ e_idx' = e_idx + 1
                /\ UNCHANGED << agg_pc, all_news >>
    /\ UNCHANGED << company_name, days_back, entries, summary >>
    /\ UNCHANGED << render_vars, rest_vars >>

\* lines 47-63: one entry of the feed; what it raises is caught at line 61
\* and the loop goes on with the next entry
GoogleEntry ==
    /\ AtEntry("google_loop")
    /\ LET entry == entries[e_idx]
       IN  news_items' = IF ~EntryRaises(entry) /\ Recent(entry)
                         THEN Append(news_items, GoogleItem(entry, PubDate(entry)))
                         ELSE news_items
    /\ e_idx' = e_idx + 1
    /\ UNCHANGED << agg_pc, company_name, days_back, entries, all_news, summary >>
    /\ UNCHANGED << render_vars, rest_vars >>

\* line 68 and lines 214-218: the feed is done
GoogleReturn ==
    /\ agg_pc = "google_loop"
    /\ e_idx > Len(entries)
    /\ ReturnItems("yandex_query")
    /\ UNCHANGED << company_name, days_back, entries, e_idx, summary >>
    /\ UNCHANGED << render_vars, rest_vars >>

\* lines 72-83 of search_yandex_news: session.get raises (caught at line
\* 101), answers with a status other than 200, or answers with a page
YandexQuery ==
    /\ agg_pc = "yandex_query"
    /\ \/ \E outcome \in {"raises", "not_200"} :
              /\ ReturnItems("dedup")
              /\ UNCHANGED << entries, e_idx >>
       \/ \E news_elements \in SeqsOf(PageElements, MaxEntries) :
              /\ entries' = Prefix(news_elements, YandexLimit)
              /\ e_idx' = 1
              /\ agg_pc' = "yandex_loop"
              /\ UNCHANGED << news_items, all_news >>
    /\ UNCHANGED << company_name, days_back, summary >>
    /\ UNCHANGED << render_vars, rest_vars >>

\* the dict of lines 92-98
YandexItem(element) ==
    [title |-> element.title, link |-> element.href,
     published |-> [date |-> Today, time |-> "hh:mm"],
     source |-> "Yandex Novosti", description |-> << >>]

\* lines 85-99: one element of the page
YandexElement ==
    /\ AtEntry("yandex_loop")
    /\ LET element == entries[e_idx]
       IN  news_items' =
             IF element.has_link /\ Contains(Lower(element.title), Lower(company_name))
             THEN Append(news_items, YandexItem(element))
             ELSE news_items
    /\ e_idx' = e_idx + 1
    /\ UNCHANGED << agg_pc, company_name, days_back, entries, all_news, summary >>
    /\ UNCHANGED << render_vars, rest_vars >>

\* line 104 and lines 219-220: the page is done
YandexReturn ==
    /\ agg_pc = "yandex_loop"
    /\ e_idx > Len(entries)
    /\ ReturnItems("dedup")
    /\ UNCHANGED << company_name, days_back, entries, e_idx, summary >>
    /\ UNCHANGED << render_vars, rest_vars >>

RECURSIVE UniqueNews(_, _)
\* lines 223-229: the news whose title, lower-cased and stripped, was not
\* seen before
UniqueNews(news, seen_titles) ==
    IF news = << >> THEN << >>
    ELSE LET title_key == Strip(Lower(Head(news).title))
         IN  IF title_key \notin seen_titles
             THEN << Head(news) >> \o UniqueNews(Tail(news), seen_titles \cup {title_key})
             ELSE UniqueNews(Tail(news), seen_titles)

\* lines 222-231: the duplicates go; news_items stands for unique_news
Dedup ==
    /\ agg_pc = "dedup"
    /\ news_items' = UniqueNews(all_news, {})
    /\ agg_pc' = "summarize"
    /\ UNCHANGED << company_name, days_back, entries, e_idx, all_news, summary >>
    /\ UNCHANGED << render_vars, rest_vars >>

\* lines 233-236: the summary is made and returned
Summarize ==
    /\ agg_pc = "summarize"
    /\ summary' = summarize_news(news_items, company_name)
    /\ agg_pc' = "returned"
    /\ UNCHANGED << company_name, days_back, entries, e_idx, news_items, all_news >>
    /\ UNCHANGED << render_vars, rest_vars >>

NewsNext ==
    \/ call_search_company_news
    \/ GoogleQuery
    \/ GoogleEntry
    \/ GoogleReturn
    \/ YandexQuery
    \/ YandexElement
    \/ YandexReturn
    \/ Dedup
    \/ Summarize

NewsSpec == NewsInit /\ [][NewsNext]_vars

\* a call that can go on goes on: the interpreter runs it to its return
NewsFairSpec == NewsSpec /\ WF_vars(NewsNext)

\* ------------------------------------------------------------------------
\* news_summary.py: enrich_with_article_content (lines 299-320) and the
\* _http_get_text (lines 186-205) its workers call.  Indexes count from 1.
\* ------------------------------------------------------------------------
\* the largest number of items handed to the call
MaxItems == 3

\* the items: one without link, one with a link and no content yet, one
\* with another link and a content it had before the call
ItemKinds ==
    { [link |-> << >>, content |-> PyNone],
      [link |-> << "u1" >>, content |-> PyNone],
      [link |-> << "u2" >>, content |-> << "old" >>] }

\* _extract_main_text_from_html of a page that holds text, made from the
\* link the page was fetched from
TextOf(link) == << "text of " >> \o link

\* what _fetch returns for an item (lines 303-311): None when the item has
\* no link, and otherwise None when _http_get_text returns None (the request
\* fails or times out, lines 204-205, or no data is read, lines 191-192) or
\* an empty text, the empty text when the page holds no text, and the text
\* of the page
FetchOutcomes(news_item) ==
    IF news_item.link = << >> THEN { [raised |-> FALSE, content |-> PyNone] }
    ELSE { [raised |-> FALSE, content |-> PyNone],
           [raised |-> FALSE, content |-> << >>],
           [raised |-> FALSE, content |-> TextOf(news_item.link)] }

\* an exception that leaves _fetch: future.result() raises it at line 316
Raised == [raised |-> TRUE, content |-> PyNone]

EnrichInit ==
    /\ RenderIdle
    /\ AggIdle
    /\ results = << >>
    /\ FetchIdle
    /\ MainIdle
    /\ en_pc = "call"
    /\ items \in SeqsOf(ItemKinds, MaxItems)
    /\ max_workers \in {1, 2}
    /\ max_fetch \in {1, 2}
    /\ targets = << >>
    /\ futures = << >>
    /\ seen = {}

\* what the steps of the call leave alone
not_enrich_vars == << render_vars, agg_vars, results, fetch_vars, main_vars >>

\* line 300
call_enrich_with_article_content ==
    /\ en_pc = "call"
    /\ targets' = Prefix(items, max_fetch)
    /\ en_pc' = "submit"
    /\ UNCHANGED << items, max_workers, max_fetch, futures, seen >>
    /\ UNCHANGED not_enrich_vars

\* line 314: executor.submit of the next target; the futures of all targets
\* are made before the loop of line 315 starts
Submit ==
    /\ en_pc = "submit"
    /\ Len(futures) < Len(targets)
    /\ futures' = Append(futures, [state |-> "pending", idx |-> 0, outcome |-> Raised])
    /\ en_pc' = IF Len(futures) + 1 = Len(targets) THEN "as_completed" ELSE "submit"
    /\ UNCHANGED << items, max_workers, max_fetch, targets, seen >>
    /\ UNCHANGED not_enrich_vars

\* no target: the list of futures is empty
SubmitNone ==
    /\ en_pc = "submit"
    /\ targets = << >>
    /\ en_pc' = "as_completed"
    /\ UNCHANGED << items, max_workers, max_fetch, targets, futures, seen >>
    /\ UNCHANGED not_enrich_vars

\* the number of futures a worker is running
Running == Cardinality({i \in 1..Len(futures) : futures[i].state = "running"})

\* a worker of the pool takes the oldest pending future, when fewer than
\* max_workers are running
WorkerStart ==
    /\ en_pc \in {"submit", "as_completed"}
    /\ Running < max_workers
    /\ \E i \in 1..Len(futures) :
           /\ futures[i].state = "pending"
           /\ \A k \in 1..i - 1 : futures[k].state # "pending"
           /\ futures' = [futures EXCEPT ![i].state = "running"]
    /\ UNCHANGED << en_pc, items, max_workers, max_fetch, targets, seen >>
    /\ UNCHANGED not_enrich_vars

\* a _fetch whose result is paired with the index of the future that
\* finished before it instead of its own
WorkerFinish_index_shared ==
    /\ en_pc \in {"submit", "as_completed"}
    /\ \E i \in 1..Len(futures) :
           /\ futures[i].state = "running"
           /\ \E out \in FetchOutcomes(targets[i]) \cup {Raised} :
                  LET done == {k \in 1..Len(futures) : futures[k].state = "finished"}
                  IN  futures' = [futures EXCEPT
                          ![i] = [state |-> "finished",
                                  idx |-> IF done = {} THEN i ELSE CHOOSE k \in done : TRUE,
                                  outcome |-> out]]
    /\ UNCHANGED << en_pc, items, max_workers, max_fetch, targets, seen >>
    /\ UNCHANGED not_enrich_vars

\* lines 302-311: a running _fetch ends, in any order with the others; it
\* returns its own index and what it fetched from the link of its own item
WorkerFinish ==
    /\ en_pc \in {"submit", "as_completed"}
    /\ \E i \in 1..Len(futures) :
           /\ futures[i].state = "running"
           /\ \E out \in FetchOutcomes(targets[i]) \cup {Raised} :
                  futures' = [futures EXCEPT
                      ![i] = [state |-> "finished", idx |-> i, outcome |-> out]]
    /\ UNCHANGED << en_pc, items, max_workers, max_fetch, targets, seen >>
    /\ UNCHANGED not_enrich_vars

\* a content that "if content" of line 319 lets through
Truthy(content) == content # PyNone /\ content # << >>

\* lines 315-320: as_completed yields a finished future not yet taken, in
\* any order; an exception is passed over, and a content that is neither
\* None nor empty is stored in the item of the returned index
Collect ==
    /\ en_pc = "as_completed"
    /\ \E i \in 1..Len(futures) \ seen :
           /\ futures[i].state = "finished"
           /\ seen' = seen \cup {i}
           /\ items' = IF ~futures[i].outcome.raised /\ Truthy(futures[i].outcome.content)
                       THEN [items EXCEPT ![futures[i].idx].content = futures[i].outcome.content]
                       ELSE items
    /\ UNCHANGED << en_pc, max_workers, max_fetch, targets, futures >>
    /\ UNCHANGED not_enrich_vars

\* the loop has taken every future; the with statement of line 313 ends
\* with shutdown(wait=True) and the call returns
EnrichReturn ==
    /\ en_pc = "as_completed"
    /\ seen = 1..Len(futures)
    /\ en_pc' = "returned"
    /\ UNCHANGED << items, max_workers, max_fetch, targets, futures, seen >>
    /\ UNCHANGED not_enrich_vars

EnrichNext ==
    \/ call_enrich_with_article_content
    \/ Submit
    \/ SubmitNone
    \/ WorkerStart
    \/ WorkerFinish
    \/ Collect
    \/ EnrichReturn

EnrichSpec == EnrichInit /\ [][EnrichNext]_vars

\* ------------------------------------------------------------------------
\* fetch_news_from_sources of news_summary.py
\* ------------------------------------------------------------------------
\* the largest number of item elements in a feed
MaxFeed == 3

\* the feeds asked, in the order of the tuple of line 279
Sources == << "google", "bing" >>

\* what _parse_datetime returns (lines 220-228): a date, which carries a
\* time zone or not, or None
Aware(t) == [none |-> FALSE, aware |-> TRUE, t |-> t]
Naive(t) == [none |-> FALSE, aware |-> FALSE, t |-> t]
NoDate == [none |-> TRUE, aware |-> FALSE, t |-> 0]

\* datetime.min, which has no time zone
datetime_min == Naive(0)

\* the item elements a feed can hold: the text of title and of link, what
\* _parse_datetime makes of pubDate, and the text of description.  No text
\* holds markup, so _clean_html has nothing but the outer spaces to remove
FeedEntries ==
    { [title |-> << "D" >>, link |-> << " ", "h", "D" >>,
       published |-> Aware(2), description |-> << "d" >>],
      [title |-> << "h", "d", " " >>, link |-> << >>,
       published |-> NoDate, description |-> << >>],
      [title |-> << "b" >>, link |-> << >>,
       published |-> Naive(1), description |-> << "d" >>],
      [title |-> << " " >>, link |-> << >>,
       published |-> Naive(1), description |-> << "d" >>] }

\* _http_get_text gave None or an empty text (lines 232-234)
NoText == [kind |-> "no_text", entries |-> << >>]

\* ET.fromstring raised (lines 236-239)
Unparsable == [kind |-> "unparsable", entries |-> << >>]

\* what the request of a feed can give: no text, a text that is no XML, or
\* a channel of item elements
FeedResponses ==
    {NoText, Unparsable}
        \cup { [kind |-> "rss", entries |-> es] : es \in SeqsOf(FeedEntries, MaxFeed) }

\* lines 242-248: the NewsItem of an item element
NewsItemOf(entry) ==
    [title |-> Strip(entry.title), link |-> Strip(entry.link),
     published |-> entry.published, summary |-> Strip(entry.description)]

RECURSIVE ChannelItems(_)
\* lines 241-249: the items of a channel, without those that have neither
\* a title nor a description
ChannelItems(es) ==
    IF es = << >> THEN << >>
    ELSE LET it == NewsItemOf(Head(es))
         IN  IF it.title = << >> /\ it.summary = << >>
             THEN ChannelItems(Tail(es))
             ELSE << it >> \o ChannelItems(Tail(es))

\* _fetch_feed(url), lines 231-249, on what the request gave
_fetch_feed(resp) ==
    IF resp.kind = "rss" THEN ChannelItems(resp.entries) ELSE << >>

\* line 285: the key of an item
ItemKey(item) ==
    Lower(Strip(IF item.link # << >> THEN item.link ELSE item.title))

RECURSIVE DedupItems(_, _)
\* lines 284-288: the items appended to unique_items by the loop, from the
\* items left to take and the keys seen
DedupItems(its, old) ==
    IF its = << >> THEN << >>
    ELSE LET item == Head(its)
             key == ItemKey(item)
         IN  IF key # << >> /\ key \notin old
             THEN << item >> \o DedupItems(Tail(its), old \cup {key})
             ELSE DedupItems(Tail(its), old)

\* line 290: the sort key of an item
SortKey(item) == IF item.published.none THEN datetime_min ELSE item.published

\* line 290: the sort compares a date with a time zone to one without,
\* which raises TypeError
SortRaises(its) ==
    \E i, j \in 1..Len(its) : SortKey(its[i]).aware # SortKey(its[j]).aware

RECURSIVE InsertDesc(_, _)
\* x put into a list in descending order, behind the items whose key is
\* not smaller
InsertDesc(sorted, x) ==
    IF sorted = << >> THEN << x >>
    ELSE IF SortKey(Head(sorted)).t >= SortKey(x).t
         THEN << Head(sorted) >> \o InsertDesc(Tail(sorted), x)
         ELSE << x >> \o sorted

RECURSIVE SortDesc(_)
\* line 290: list.sort(reverse=True), which keeps items of equal key in
\* the order they had
SortDesc(its) ==
    IF its = << >> THEN << >>
    ELSE InsertDesc(SortDesc(SubSeq(its, 1, Len(its) - 1)), its[Len(its)])

FetchInit ==
    /\ RenderIdle
    /\ AggIdle
    /\ results = << >>
    /\ EnrichIdle
    /\ MainIdle
    /\ fn_pc = "call"
    /\ max_items_per_source \in {1, 2}
    /\ responses = << >>
    /\ all_items = << >>
    /\ unique_items = << >>
    /\ fn_seen = {}

\* what the steps of the call leave alone
not_fetch_vars == << render_vars, agg_vars, results, enrich_vars, main_vars >>

\* lines 267-278
call_fetch_news_from_sources ==
    /\ fn_pc = "call"
    /\ all_items' = << >>
    /\ fn_pc' = "fetch"
    /\ UNCHANGED << max_items_per_source, responses, unique_items, fn_seen >>
    /\ UNCHANGED not_fetch_vars

\* lines 279-281: one turn of the loop over the feeds
FetchSource ==
    /\ fn_pc = "fetch"
    /\ Len(responses) < Len(Sources)
    /\ \E resp \in FeedResponses :
           LET fetched == Prefix(_fetch_feed(resp), max_items_per_source)
           IN  /\ responses' = Append(responses, resp)
               /\ all_items' = all_items \o fetched
    /\ UNCHANGED << fn_pc, max_items_per_source, unique_items, fn_seen >>
    /\ UNCHANGED not_fetch_vars

\* a loop that keeps of each key the item met last
DedupAndSort_last_kept ==
    /\ fn_pc = "fetch"
    /\ Len(responses) = Len(Sources)
    /\ LET rev(s) == [i \in 1..Len(s) |-> s[Len(s) + 1 - i]]
           kept == rev(DedupItems(rev(all_items), {}))
       IN  /\ fn_seen' = { ItemKey(kept[k]) : k \in 1..Len(kept) }
           /\ IF SortRaises(kept)
              THEN fn_pc' = "raised" /\ unique_items' = kept
              ELSE fn_pc' = "returned" /\ unique_items' = SortDesc(kept)
    /\ UNCHANGED << max_items_per_source, responses, all_items >>
    /\ UNCHANGED not_fetch_vars

\* lines 283-291: the loop over items, the sort and the return; of the
\* locals only unique_items is returned, and nothing when the sort raises
DedupAndSort ==
    /\ fn_pc = "fetch"
    /\ Len(responses) = Len(Sources)
    /\ LET kept == DedupItems(all_items, {})
       IN  /\ fn_seen' = { ItemKey(kept[k]) : k \in 1..Len(kept) }
           /\ IF SortRaises(kept)
              THEN fn_pc' = "raised" /\ unique_items' = kept
              ELSE fn_pc' = "returned" /\ unique_items' = SortDesc(kept)
    /\ UNCHANGED << max_items_per_source, responses, all_items >>
    /\ UNCHANGED not_fetch_vars

FetchNext ==
    \/ call_fetch_news_from_sources
    \/ FetchSource
    \/ DedupAndSort

FetchSpec == FetchInit /\ [][FetchNext]_vars

\* ------------------------------------------------------------------------
\* main of analyze_company_combined.py
\* ------------------------------------------------------------------------
\* the largest number of entries the news feed gives
MaxRss == 1

\* args.output_txt
TxtPath == "report_raw.txt"

\* the paths args.output_html can name: its default, or the path of the
\* text output
Paths == {"report.html", TxtPath}

\* a path main has not opened for writing
Untouched == [kind |-> "untouched", data |-> << >>]

\* the replies of the model: the content of the first choice, or None
\* where the reply holds no text
Replies ==
    { << >>,
      << "<", "s", ">" >>,
      << "#", "#", "#", "#", "#", "#", "#", " ", "&" >>,
      << "1", ".", " ", "c", "<", NL, "-", " ", "a", "&" >>,
      << "#", "#", "#", " ", "&", NL, "|", "a", "|", ">", "|" >>,
      << Backtick, Backtick, Backtick, NL, "#", "#", "#", " ", "&" >>,
      PyNone }

\* the steps of main that can fail, in the order of lines 621-642
Steps ==
    << "get_access_token", "fetch_rss_entries", "extract_pdf_text",
       "analyze_company_combined", "write_txt", "write_html" >>

\* a step that was begun, and whether it ended without an exception
Done(step) == [step |-> step, ok |-> TRUE]
Failed(step) == [step |-> step, ok |-> FALSE]

MainInit ==
    /\ RenderIdle
    /\ AggIdle
    /\ results = << >>
    /\ EnrichIdle
    /\ FetchIdle
    /\ m_pc = "check_pdf"
    /\ pdf_exists \in BOOLEAN
    /\ output_html \in Paths
    /\ token = "none"
    /\ rss_entries = 0
    /\ pdf_text = "none"
    /\ combined_plain = << >>
    /\ calls = << >>
    /\ files = [p \in Paths |-> Untouched]
    /\ exit_status = "none"

\* what the steps of main before the report leave alone
not_main_vars == << render_vars, agg_vars, results, enrich_vars, fetch_vars >>

\* an uncaught exception ends the process with status 1
Uncaught(step) ==
    /\ calls' = Append(calls, Failed(step))
    /\ m_pc' = "raised"
    /\ exit_status' = 1

\* lines 617-619
main_check_pdf ==
    /\ m_pc = "check_pdf"
    /\ IF pdf_exists
       THEN m_pc' = "token" /\ UNCHANGED exit_status
       ELSE m_pc' = "exited" /\ exit_status' = 1
    /\ UNCHANGED << pdf_exists, output_html, token, rss_entries, pdf_text,
                    combined_plain, calls, files >>
    /\ UNCHANGED not_main_vars

\* lines 621-622 and get_access_token, lines 75-85: the request is sent;
\* requests.post, raise_for_status or the read of the reply can raise
main_get_access_token ==
    /\ m_pc = "token"
    /\ \/ /\ token' = "access_token"
          /\ calls' = Append(calls, Done("get_access_token"))
          /\ m_pc' = "news"
          /\ UNCHANGED exit_status
       \/ Uncaught("get_access_token") /\ UNCHANGED token
    /\ UNCHANGED << pdf_exists, output_html, rss_entries, pdf_text,
                    combined_plain, files >>
    /\ UNCHANGED not_main_vars

\* lines 624-627: the feed is asked; a feed that cannot be read gives no
\* entries
main_fetch_rss_entries ==
    /\ m_pc = "news"
    /\ \/ /\ rss_entries' \in 0..MaxRss
          /\ calls' = Append(calls, Done("fetch_rss_entries"))
          /\ m_pc' = "pdf"
          /\ UNCHANGED exit_status
       \/ Uncaught("fetch_rss_entries") /\ UNCHANGED rss_entries
    /\ UNCHANGED << pdf_exists, output_html, token, pdf_text, combined_plain,
                    files >>
    /\ UNCHANGED not_main_vars

\* lines 629-630: fitz.open raises on a file it cannot read
main_extract_pdf_text ==
    /\ m_pc = "pdf"
    /\ \/ /\ pdf_text' = "text"
          /\ calls' = Append(calls, Done("extract_pdf_text"))
          /\ m_pc' = "analyze"
          /\ UNCHANGED exit_status
       \/ Uncaught("extract_pdf_text") /\ UNCHANGED pdf_text
    /\ UNCHANGED << pdf_exists, output_html, token, rss_entries,
                    combined_plain, files >>
    /\ UNCHANGED not_main_vars

\* a main that turns to the report as soon as it has the reply
main_analyze_company_combined_unsaved ==
    /\ m_pc = "analyze"
    /\ \/ /\ combined_plain' \in Replies
          /\ calls' = Append(calls, Done("analyze_company_combined"))
          /\ m_pc' = "generate"
          /\ UNCHANGED exit_status
       \/ Uncaught("analyze_company_combined") /\ UNCHANGED combined_plain
    /\ UNCHANGED << pdf_exists, output_html, token, rss_entries, pdf_text,
                    files >>
    /\ UNCHANGED not_main_vars

\* lines 632-633
main_analyze_company_combined ==
    /\ m_pc = "analyze"
    /\ \/ /\ combined_plain' \in Replies
          /\ calls' = Append(calls, Done("analyze_company_combined"))
          /\ m_pc' = "save_txt"
          /\ UNCHANGED exit_status
       \/ Uncaught("analyze_company_combined") /\ UNCHANGED combined_plain
    /\ UNCHANGED << pdf_exists, output_html, token, rss_entries, pdf_text,
                    files >>
    /\ UNCHANGED not_main_vars

\* lines 635-637: open fails and leaves the path alone, or it empties the
\* file and write stores the reply, or raises on a reply that is no text
main_write_txt ==
    /\ m_pc = "save_txt"
    /\ \/ /\ Uncaught("write_txt")
          /\ UNCHANGED files
       \/ /\ combined_plain = PyNone
          /\ Uncaught("write_txt")
          /\ files' = [files EXCEPT ![TxtPath] = [kind |-> "text", data |-> << >>]]
       \/ /\ combined_plain # PyNone
          /\ files' = [files EXCEPT
                 ![TxtPath] = [kind |-> "text", data |-> combined_plain]]
          /\ calls' = Append(calls, Done("write_txt"))
          /\ m_pc' = "generate"
          /\ UNCHANGED exit_status
    /\ UNCHANGED << pdf_exists, output_html, token, rss_entries, pdf_text,
                    combined_plain >>
    /\ UNCHANGED not_main_vars

\* line 640: the call of build_html_report(combined_plain)
main_build_html_report ==
    /\ m_pc = "generate"
    /\ pc = "idle"
    /\ plain_text' = combined_plain
    /\ pc' = "call"
    /\ m_pc' = "html"
    /\ UNCHANGED << caller, lines, idx, sections, current, content_blocks,
                    nav_html >>
    /\ UNCHANGED << agg_vars, results, enrich_vars, fetch_vars >>
    /\ UNCHANGED << pdf_exists, output_html, token, rss_entries, pdf_text,
                    combined_plain, calls, files, exit_status >>

\* lines 641-649: build_html_report has returned; open fails and leaves
\* the path alone, or the report is stored and main ends
main_write_html ==
    /\ m_pc = "html"
    /\ pc = "report"
    /\ \/ /\ Uncaught("write_html")
          /\ UNCHANGED files
       \/ /\ files' = [files EXCEPT
                 ![output_html] = [kind |-> "html",
                                   data |-> << nav_html, content_blocks >>]]
          /\ calls' = Append(calls, Done("write_html"))
          /\ m_pc' = "done"
          /\ exit_status' = 0
    /\ UNCHANGED << pdf_exists, output_html, token, rss_entries, pdf_text,
                    combined_plain >>
    /\ UNCHANGED not_main_vars

MainNext ==
    \/ main_check_pdf
    \/ main_get_access_token
    \/ main_fetch_rss_entries
    \/ main_extract_pdf_text
    \/ main_analyze_company_combined
    \/ main_write_txt
    \/ main_build_html_report
    \/ call_build_html_report
    \/ ParseBegin
    \/ FenceLine
    \/ CodeLine
    \/ NumHeadingLine
    \/ MdHeadingLine
    \/ TableRowLine
    \/ BodyLine
    \/ ParseEnd
    \/ BuildReport
    \/ main_write_html

MainSpec == MainInit /\ [][MainNext]_vars

\* ------------------------------------------------------------------------
\* Reading the rendered markup back
\* ------------------------------------------------------------------------
RECURSIVE NavLinks(_, _)
\* the link entries of a navigation from index p on, in order: the anchor
\* target, the data-target and the label of each
NavLinks(nav, p) ==
    LET a == SkipTo(nav, p, "<a href='#")
        d == SkipTo(nav, a, "' data-target='")
        g == SkipTo(nav, d, "'>")
        e == SkipTo(nav, g, "</a>")
    IN  IF a > Len(nav) THEN << >>
        ELSE << [href   |-> SubSeq(nav, a + 1, d - 1),
                 target |-> SubSeq(nav, d + 1, g - 1),
                 label  |-> SubSeq(nav, g + 1, e - 1)] >> \o NavLinks(nav, e + 1)

\* the id and the heading of a section container of the body
ContainerHead(cb) ==
    LET c == SkipTo(cb, 1, "' class='card level-")
        h == SkipTo(cb, 1, "<h2>")
        e == SkipTo(cb, 1, "</h2>")
    IN  [id |-> SubSeq(cb, 2, c - 1), heading |-> SubSeq(cb, h + 1, e - 1)]

\* the tokens of the rendered navigation and body
ReportTokens == nav_html \o Flatten(content_blocks)

\* the markup characters that must not come through from the input
Live == {"<", ">", "&"}

Has(t, c) == \E i \in 1..Len(t) : t[i] = c

\* ------------------------------------------------------------------------
\* Claims
\* ------------------------------------------------------------------------

\* C1: when build_html_report has built the navigation and the body, the
\* navigation holds exactly one link entry per section returned by
\* parse_to_sections, and the i-th entry points at, and is labelled as, the
\* i-th section container of the body; no section is skipped, whatever its
\* level.
C1_NavEntryPerSection ==
    pc = "report" =>
        LET links == NavLinks(nav_html, 1)
        IN  /\ Len(content_blocks) = Len(sections)
            /\ Len(links) = Len(sections)
            /\ \A i \in 1..Len(sections) :
                   /\ links[i].href = ContainerHead(content_blocks[i]).id
                   /\ links[i].label = ContainerHead(content_blocks[i]).heading
                   /\ links[i].href = sections[i].id

\* a report of three sections, one of them deeper than the clamp of build_nav
C1_Witness ==
    /\ pc = "report"
    /\ Len(sections) = 3
    /\ \E i \in 1..Len(sections) : sections[i].level > 6
    /\ Len(NavLinks(nav_html, 1)) = 3

\* C2: in the navigation and the body built by build_html_report no '<',
\* '>' or '&' of the input is left as it is: in the blocks, the headings and
\* the navigation labels it is an entity, in the ids and anchor targets it is
\* gone; every other markup character is part of a tag of the renderer.
C2_NoLiveMarkup ==
    pc = "report" => \A i \in 1..Len(ReportTokens) : ReportTokens[i] \notin Live

\* a report of a text that holds '<', '>' and '&', each rendered as an entity
C2_Witness ==
    /\ pc = "report"
    /\ \A c \in Live : Has(plain_text, c)
    /\ Has(ReportTokens, "&lt;")
    /\ Has(ReportTokens, "&gt;")
    /\ Has(ReportTokens, "&amp;")

\* ------------------------------------------------------------------------
\* Reading the input lines and the returned sections
\* ------------------------------------------------------------------------
\* the number of fence lines among the first j lines
FenceCount(ls, j) == Cardinality({i \in 1..j : IsFence(ls[i])})

\* line j is met in code mode: an odd number of fence lines comes before it
InCode(ls, j) == FenceCount(ls, j - 1) % 2 = 1

\* line j is a heading line met outside code mode
HeadingAt(ls, j) ==
    /\ ~InCode(ls, j)
    /\ ~IsFence(ls[j])
    /\ _heading_num(ls[j]).ok \/ _heading_md(ls[j]).ok

\* the number of heading lines met outside code mode among the first j lines
HeadingCount(ls, j) == Cardinality({i \in 1..j : HeadingAt(ls, i)})

\* the title a heading line gives its section
HeadingTitle(l) ==
    IF _heading_num(l).ok
    THEN _heading_num(l).g1 \o << " " >> \o _heading_num(l).g2
    ELSE _heading_md(l).g2

\* the level a heading line gives its section
HeadingLevel(l) ==
    IF _heading_num(l).ok
    THEN Count(_heading_num(l).g1, ".") + 1
    ELSE Len(_heading_md(l).g1)

\* a dotted numeral, whitespace and text, with no punctuation after the
\* numeral: ^\s*(\d+(\.\d+)*)\s+(.*\S)\s*$
BareNumeral(l) ==
    LET p0 == SkipSet(l, 1, Space)
        d  == SkipSet(l, p0, Digit)
        p1 == NumeralEnd(l, d)
        p3 == SkipSet(l, p1, Space)
    IN  IF d > p0 /\ p3 > p1 /\ p3 <= Len(l)
        THEN [ok |-> TRUE, g1 |-> SubSeq(l, p0, p1 - 1), g2 |-> TextGroup(l, p3)]
        ELSE NoMatch

\* a line that no rule but the paragraph rule takes
ParagraphLine(l) ==
    /\ Strip(l) # << >>
    /\ ~IsFence(l)
    /\ ~_heading_num(l).ok /\ ~_heading_md(l).ok
    /\ ~_table_row(l).ok
    /\ ~_ul_item(l).ok /\ ~_ol_item(l).ok
    /\ ~IsCallout(l)

\* the paragraph block of a line
Paragraph(l) == << "<p>" >> \o html_escape(Strip(l)) \o << "</p>" >>

\* the blocks of all the sections, in order
AllBlocks(secs) == Flatten([i \in 1..Len(secs) |-> secs[i].blocks])

IsTableBlock(b) == b # << >> /\ b[1] = "<div class='table-wrap'>"

IsCodeBlock(b) == b # << >> /\ b[1] = "<pre>"

RECURSIVE TableRuns(_, _, _)
\* the maximal runs of consecutive table-row lines met outside code mode,
\* from line j on; run is the run line j continues
TableRuns(ls, j, run) ==
    LET flush == IF run = << >> THEN << >> ELSE << run >>
    IN  IF j > Len(ls) THEN flush
        ELSE IF ~InCode(ls, j) /\ ~IsFence(ls[j]) /\ ~HeadingAt(ls, j)
                /\ _table_row(ls[j]).ok
        THEN TableRuns(ls, j + 1, Append(run, ls[j]))
        ELSE flush \o TableRuns(ls, j + 1, << >>)

\* the cells of a table-row line: what stands between its outer pipes, split
\* at the pipes, each piece stripped
CellsOf(l) ==
    LET s == Strip(l)
        pieces == SplitOn(SubSeq(s, 2, Len(s) - 1), "|")
    IN  [i \in 1..Len(pieces) |-> Strip(pieces[i])]

\* a row of cells of one kind
RowOf(l, tag) ==
    << "<tr>" >>
    \o Flatten([i \in 1..Len(CellsOf(l)) |->
                   << "<" \o tag \o ">" >> \o html_escape(CellsOf(l)[i])
                                           \o << "</" \o tag \o ">" >>])
    \o << "</tr>" >>

\* the table of a run whose second line is a separator row: the first line
\* is the header, the lines after the separator are the body
TableOf(run) ==
    << "<div class='table-wrap'>", "<table>", "<thead>" >>
    \o RowOf(run[1], "th")
    \o << "</thead>", "<tbody>" >>
    \o Flatten([i \in 1..(Len(run) - 2) |-> RowOf(run[i + 2], "td")])
    \o << "</tbody>", "</table>", "</div>" >>

\* ------------------------------------------------------------------------
\* Claims, continued
\* ------------------------------------------------------------------------

C4_MarkdownHeadingInReport ==
    pc = "report" =>
        LET input == splitlines(plain_text)
        IN  \A j \in 1..Len(input) :
                (FenceCount(input, Len(input)) = 0 /\ _heading_md(input[j]).ok) =>
                    \E i \in 1..Len(sections) :
                        /\ sections[i].level = Len(_heading_md(input[j]).g1)
                        /\ sections[i].title = _heading_md(input[j]).g2

\* C5: two unordered item lines followed at once by an ordered item line,
\* met outside code mode, give in one section the two <li> of one <ul>, its
\* closing wrapper, an <ol> wrapper and the <li> of the ordered item.
C5_UlThenOl ==
    pc = "returned" =>
        \A j \in 1..(Len(lines) - 2) :
            ( /\ ~InCode(lines, j)
              /\ _ul_item(lines[j]).ok
              /\ _ul_item(lines[j + 1]).ok
              /\ _ol_item(lines[j + 2]).ok ) =>
                \E i \in 1..Len(sections) :
                    \E p \in 2..(Len(sections[i].blocks) - 4) :
                        LET b == sections[i].blocks
                            li(t) == << "<li>" >> \o html_escape(t) \o << "</li>" >>
                        IN  /\ \E q \in 1..(p - 1) :
                                /\ b[q] = << "<ul>" >>
                                /\ \A r \in (q + 1)..(p - 1) : b[r][1] = "<li>"
                            /\ b[p] = li(_ul_item(lines[j]).g1)
                            /\ b[p + 1] = li(_ul_item(lines[j + 1]).g1)
                            /\ b[p + 2] = << "</ul>" >>
                            /\ b[p + 3] = << "<ol>" >>
                            /\ b[p + 4] = li(_ol_item(lines[j + 2]).g1)

\* C6: build_html_report of a text that holds an opening fence line, a
\* content line with a '<' in it and a closing fence line yields a
\* <pre><code> block holding the content line, escaped.
C6_FencedBlockInReport ==
    pc = "report" =>
        LET input == splitlines(plain_text)
        IN  \A j \in 1..(Len(input) - 2) :
                ( /\ IsFence(input[j])
                  /\ ~InCode(input, j)
                  /\ ~IsFence(input[j + 1])
                  /\ Has(input[j + 1], "<")
                  /\ IsFence(input[j + 2]) ) =>
                    \E p \in 1..Len(AllBlocks(sections)) :
                        AllBlocks(sections)[p] =
                            << "<pre>", "<code>" >> \o html_escape(input[j + 1])
                                                    \o << "</code>", "</pre>" >>

\* C7: the returned sections hold one table block per run of table-row
\* lines, in order; the block of a run of n >= 2 lines whose second line is
\* a separator row has the first line as its one header row of <th> cells
\* and the n-2 lines after the separator as its body rows of <td> cells, in
\* source order, and no <tr> for the separator.
C7_TableWithSeparator ==
    pc = "returned" =>
        LET runs   == TableRuns(lines, 1, << >>)
            tables == SelectSeq(AllBlocks(sections), IsTableBlock)
        IN  /\ Len(tables) = Len(runs)
            /\ \A k \in 1..Len(runs) :
                   (Len(runs[k]) >= 2 /\ _table_sep(runs[k][2])) =>
                       /\ tables[k] = TableOf(runs[k])
                       /\ Count(tables[k], "<tr>") = Len(runs[k]) - 1

\* a table of three lines, the second a separator: one header row and one
\* body row
C7_Witness ==
    /\ pc = "returned"
    /\ Len(lines) = 3
    /\ \A j \in 1..3 : _table_row(lines[j]).ok
    /\ _table_sep(lines[2]) /\ ~_table_sep(lines[1]) /\ ~_table_sep(lines[3])
    /\ Len(sections) = 1
    /\ Len(sections[1].blocks) = 1
    /\ Count(sections[1].blocks[1], "<tr>") = 2
    /\ Count(sections[1].blocks[1], "<th>") = 2
    /\ Count(sections[1].blocks[1], "<td>") = 2

\* C8: parse_to_sections returns the default section, titled
\* "Аналитический отчёт" with level 1, followed by one section per heading
\* line met outside code mode, in the order of the heading lines.
C8_SectionPerHeading ==
    pc = "returned" =>
        /\ Len(sections) = 1 + HeadingCount(lines, Len(lines))
        /\ sections[1].title = DefaultTitle
        /\ sections[1].level = 1
        /\ \A j \in 1..Len(lines) :
               HeadingAt(lines, j) =>
                   /\ sections[1 + HeadingCount(lines, j)].title = HeadingTitle(lines[j])
                   /\ sections[1 + HeadingCount(lines, j)].level = HeadingLevel(lines[j])

\* three sections returned for two heading lines of different kinds
C8_Witness ==
    /\ pc = "returned"
    /\ Len(sections) = 3
    /\ \E j \in 1..Len(lines) : HeadingAt(lines, j) /\ _heading_num(lines[j]).ok
    /\ \E j \in 1..Len(lines) : HeadingAt(lines, j) /\ _heading_md(lines[j]).ok

\* a section with nothing open and nothing buffered
Closed(sec) ==
    /\ ~sec.in_code
    /\ sec.code_buf = << >>
    /\ sec.list_type = "None"
    /\ sec.table_rows = << >>

\* the number of blocks of a section that are the one-token block tag
CountBlocks(sec, tag) ==
    Cardinality({p \in 1..Len(sec.blocks) : sec.blocks[p] = << tag >>})

\* C9: every section appended to the list of sections has no open code
\* block, no open list wrapper and no table buffer, and what was buffered
\* for it is in its blocks: its list wrappers are closed, and the returned
\* sections hold a code block per opened fence and a table block per run of
\* table rows.
C9_SectionsFinalized ==
    /\ \A i \in 1..Len(sections) :
           /\ Closed(sections[i])
           /\ CountBlocks(sections[i], "<ul>") = CountBlocks(sections[i], "</ul>")
           /\ CountBlocks(sections[i], "<ol>") = CountBlocks(sections[i], "</ol>")
    /\ pc = "returned" =>
           /\ Len(SelectSeq(AllBlocks(sections), IsCodeBlock))
                  = (FenceCount(lines, Len(lines)) + 1) \div 2
           /\ Len(SelectSeq(AllBlocks(sections), IsTableBlock))
                  = Len(TableRuns(lines, 1, << >>))

\* a table closed by the heading that follows it, and a fence left open at
\* the end of the input
C9_Witness ==
    /\ pc = "returned"
    /\ Len(sections) = 2
    /\ Len(sections[1].blocks) = 1 /\ IsTableBlock(sections[1].blocks[1])
    /\ Len(sections[2].blocks) = 1 /\ IsCodeBlock(sections[2].blocks[1])
    /\ FenceCount(lines, Len(lines)) = 1

\* the kinds of block open in a section
OpenKinds(sec) ==
    (IF sec.in_code THEN {"code"} ELSE {})
    \cup (IF sec.list_type # "None" THEN {sec.list_type} ELSE {})
    \cup (IF sec.table_rows # << >> THEN {"table"} ELSE {})

\* the block b closes an open block of kind k
Closes(b, k) ==
    CASE k = "code" -> IsCodeBlock(b)
      [] k = "table" -> IsTableBlock(b)
      [] k = "ul" -> b = << "</ul>" >>
      [] k = "ol" -> b = << "</ol>" >>

\* a step that ends the open block of current, by opening another kind, by
\* a line that leaves nothing open or by ending the section, appends the
\* closing block right after the blocks current had
ClosesFirst ==
    \A k \in OpenKinds(current) :
        (k \notin OpenKinds(current') \/ sections' # sections) =>
            LET was == Len(current.blocks)
                now == IF sections' # sections
                       THEN sections'[Len(sections')].blocks
                       ELSE current'.blocks
            IN  /\ Len(now) > was
                /\ SubSeq(now, 1, was) = current.blocks
                /\ Closes(now[was + 1], k)

\* C10: at most one of code block, unordered list, ordered list and table
\* buffer is open in the current section, and a step that opens one of them
\* or starts a new section first closes the one that is open.
C10_OneOpenBlock ==
    /\ [](Cardinality(OpenKinds(current)) <= 1)
    /\ [][ClosesFirst]_vars

\* a fence opened right after a list item: the list is closed, the code
\* block is the one thing open
C10_Witness ==
    /\ pc = "loop"
    /\ OpenKinds(current) = {"code"}
    /\ current.blocks # << >>
    /\ current.blocks[Len(current.blocks)] = << "</ul>" >>

\* the blocks a section container of the body holds: the tokens between its
\* heading and its closing tag
ContainerBody(cb) == SubSeq(cb, SkipTo(cb, 1, "</h2>") + 1, Len(cb) - 1)

\* C11: empty input gives exactly one section, the default one, titled
\* "Аналитический отчёт", with no blocks: parse_to_sections of a text without
\* lines returns it, and build_html_report of the empty string or of None
\* builds one container without blocks and a navigation of one wrapper
\* holding one entry, which points at that container.
C11_EmptyInput ==
    /\ (pc = "returned" /\ lines = << >>) =>
           /\ Len(sections) = 1
           /\ sections[1].title = DefaultTitle
           /\ sections[1].level = 1
           /\ sections[1].blocks = << >>
    /\ (pc = "report" /\ plain_text \in {<< >>, PyNone}) =>
           /\ lines = << >>
           /\ Len(content_blocks) = 1
           /\ ContainerHead(content_blocks[1]).heading = DefaultTitle
           /\ ContainerBody(content_blocks[1]) = << >>
           /\ Len(NavLinks(nav_html, 1)) = 1
           /\ NavLinks(nav_html, 1)[1].href = ContainerHead(content_blocks[1]).id
           /\ NavLinks(nav_html, 1)[1].label = DefaultTitle
           /\ Count(nav_html, "<ul class='toc'>") = 1
           /\ Count(nav_html, "</ul>") = 1

\* the report built for None
C11_Witness ==
    /\ pc = "report"
    /\ plain_text = PyNone
    /\ Len(content_blocks) = 1
    /\ Len(NavLinks(nav_html, 1)) = 1

\* the rules of the loop of lines 251-332 that take the line the loop is at
RulesTaking ==
    (IF FenceRule THEN {"fence"} ELSE {})
    \cup (IF CodeRule THEN {"code"} ELSE {})
    \cup (IF NumHeadingRule THEN {"heading_num"} ELSE {})
    \cup (IF MdHeadingRule THEN {"heading_md"} ELSE {})
    \cup (IF TableRowRule THEN {"table_row"} ELSE {})
    \cup (IF BodyRule THEN {"body"} ELSE {})

\* no state of the loop is an error state: there is a current section to
\* read and write, and exactly one rule takes the line
NoErrorState ==
    /\ pc = "loop" => current # None
    /\ AtLine => Cardinality(RulesTaking) = 1

\* how far a call has come: the call, line 249, the lines in order, the
\* return of parse_to_sections, the navigation and body of the report
Rank ==
    CASE pc = "call" -> 0
      [] pc = "start" -> 1
      [] pc = "loop" -> 1 + idx
      [] pc = "returned" -> 3 + Len(lines)
      [] pc = "report" -> 4 + Len(lines)

\* C12: the renderer is total.  No state of the loop is an error state:
\* every line, malformed or not, is taken by exactly one rule (the first in
\* priority that matches, down to the paragraph and spacer rule); every step
\* moves the call on by one position, so the lines are taken in order, each
\* once, and the call ends after as many steps as it has lines and stages;
\* the returned sections have nothing left open, an unclosed fence and a
\* table of one row being emitted as blocks.
C12_Total ==
    /\ []NoErrorState
    /\ [][Rank' = Rank + 1 /\ (lines' = lines \/ pc = "call")]_vars
    /\ [](pc = "returned" =>
              /\ Rank = 3 + Len(lines)
              /\ \A i \in 1..Len(sections) : Closed(sections[i])
              /\ Len(SelectSeq(AllBlocks(sections), IsCodeBlock))
                     = (FenceCount(lines, Len(lines)) + 1) \div 2)

\* a returned call whose text ended inside an unclosed fence, after a table
\* of a single row
C12_Witness ==
    /\ pc = "returned"
    /\ Len(lines) = 2
    /\ _table_row(lines[1]).ok
    /\ IsFence(lines[2])
    /\ Len(sections) = 1
    /\ Len(sections[1].blocks) = 2
    /\ IsTableBlock(sections[1].blocks[1])
    /\ IsCodeBlock(sections[1].blocks[2])

\* the nesting depth at index p of a navigation: the wrappers opened and not
\* yet closed before p
DepthAt(nav, p) ==
    Count(SubSeq(nav, 1, p - 1), "<ul class='toc'>") - Count(SubSeq(nav, 1, p - 1), "</ul>")

\* the indexes of the tokens of a navigation that are the token c, in order
TokensAt(nav, c) ==
    LET Is(p) == nav[p] = c
    IN  SelectSeq([p \in 1..Len(nav) |-> p], Is)

\* a level brought into the range 1..6
Clamped(level) == IF level < 1 THEN 1 ELSE IF level > 6 THEN 6 ELSE level

\* C13: for any list of sections, build_nav emits one link entry per
\* section, the i-th at the nesting depth that is the level of the i-th
\* section clamped to 1..6; between two entries it only opens wrappers (as
\* many as the level rises) or only closes wrappers (as many as it falls);
\* the depth is at least 1 from the first entry to the last, and at the end
\* every wrapper opened has been closed.
C13_NavDepth ==
    pc = "nav_returned" =>
        LET links == TokensAt(nav_html, "<li>")
            ends  == TokensAt(nav_html, "</li>")
            level(i) == Clamped(sections[i].level)
        IN  /\ Len(links) = Len(sections)
            /\ \A i \in 1..Len(links) :
                   DepthAt(nav_html, links[i]) = level(i)
            /\ \A i \in 1..(Len(links) - 1) :
                   LET between == SubSeq(nav_html, ends[i] + 1, links[i + 1] - 1)
                   IN  /\ level(i + 1) >= level(i) =>
                           /\ Count(between, "<ul class='toc'>") = level(i + 1) - level(i)
                           /\ Len(between) = level(i + 1) - level(i)
                       /\ level(i + 1) <= level(i) =>
                           /\ Count(between, "</ul>") = level(i) - level(i + 1)
                           /\ Len(between) = level(i) - level(i + 1)
            /\ \A p \in 2..Len(nav_html) : DepthAt(nav_html, p) >= 1
            /\ DepthAt(nav_html, Len(nav_html) + 1) = 0

\* a navigation that goes down to the clamp for a level-8 section, comes
\* back to depth 2 and ends at depth 6
C13_Witness ==
    /\ pc = "nav_returned"
    /\ Len(sections) = 3
    /\ sections[1].level = 8 /\ sections[2].level = 2 /\ sections[3].level = 7
    /\ Count(nav_html, "<ul class='toc'>") = 10
    /\ Count(nav_html, "</ul>") = 10

\* the level a section container of the body carries in its class
ContainerLevel(cb) == cb[SkipTo(cb, 1, "' class='card level-") + 1]

\* C14: the container build_html_report emits for a section carries the
\* id of the section and the class level-N, N being the level of the section
\* clamped to 1..6, as in build_nav; so also for a section whose numeric
\* heading has more than six components.
C14_ContainerClampedLevel ==
    pc = "report" =>
        \A i \in 1..Len(sections) :
            /\ ContainerHead(content_blocks[i]).id = sections[i].id
            /\ ContainerLevel(content_blocks[i]) = ToString(Clamped(sections[i].level))

\* a feed entry that has what lines 50-59 read and is recent enough
GoodEntry(entry) ==
    /\ entry.shape \in {"full", "no_date"}
    /\ entry.shape = "no_date" \/ entry.age <= days_back

\* the links of a list of entries or news, in order
LinksOf(s) == [i \in 1..Len(s) |-> s[i].link]

\* the step is a query that fails: the search ends without a loop
QueryFails ==
    \/ agg_pc = "google_query" /\ agg_pc' = "yandex_query"
    \/ agg_pc = "yandex_query" /\ agg_pc' = "dedup"

\* C15: search_company_news always returns a summary string, whatever the
\* sources do.  Every call comes to its return; a query that raises, or
\* that Yandex answers with a status other than 200, adds nothing to the
\* news and the call goes on; the Google search adds the news of exactly the
\* recent well-formed entries of the feed, in order, an entry whose
\* processing raises being the only one skipped; and when there is no news
\* at all the summary is the "not found" message for the company, otherwise
\* it is the summary headed by the name of the company.
C15_AlwaysSummary ==
    /\ <>(agg_pc = "returned")
    /\ [][QueryFails => all_news' = all_news]_vars
    /\ [][(agg_pc = "google_loop" /\ agg_pc' # "google_loop") =>
              /\ e_idx > Len(entries)
              /\ LinksOf(all_news') = LinksOf(all_news) \o LinksOf(SelectSeq(entries, GoodEntry))]_vars
    /\ [](agg_pc = "returned" =>
              /\ summary # << >>
              /\ all_news = << >> => summary = NotFound(company_name)
              /\ all_news # << >> =>
                     /\ summary # NotFound(company_name)
                     /\ SubSeq(summary, 1, 3 + Len(company_name))
                            = << NL, "[office] ", "SVODKA NOVOSTEI PO KOMPANII: " >>
                              \o Upper(company_name))

\* a call that returned a summary of one news: the feed held an entry with
\* a date datetime() refuses, then a good entry, and the Yandex query failed
C15_Witness ==
    /\ agg_pc = "returned"
    /\ entries \in SeqsOf(GoogleEntries, MaxEntries)
    /\ Len(entries) = 2
    /\ entries[1].shape = "bad_date"
    /\ GoodEntry(entries[2])
    /\ LinksOf(all_news) = << entries[2].link >>
    /\ summary # NotFound(company_name)


\* ------------------------------------------------------------------------
\* C16: code mode
\* ------------------------------------------------------------------------
\* the index of the last fence line among the first j lines, 0 when none
LastFence(ls, j) ==
    LET F == {i \in 1..j : IsFence(RStripCR(ls[i]))}
    IN  IF F = {} THEN 0 ELSE CHOOSE i \in F : \A k \in F : k <= i

\* the loop is at a line, or past the last one, with the code block open
InCodeMode == pc = "loop" /\ current # None /\ current.in_code

\* C16: while the code block is open, a line that is no fence is taken by
\* no other rule: the step only appends the raw line to the buffer, blank
\* or not, and starts no section and adds no block, so the buffer is at
\* every moment the lines since the opening fence, in order; the closing
\* fence, or the end of the input when there is none, adds to the current
\* section exactly one block, the escaped <pre><code> of the buffered lines
\* joined by line ends, and leaves the buffer empty and the code block
\* closed; outside the code block the buffer is empty.
C16_CodeMode ==
    /\ [][(InCodeMode /\ AtLine /\ ~IsFence(line)) =>
              /\ current' = [current EXCEPT !.code_buf = Append(@, raw)]
              /\ sections' = sections
              /\ idx' = idx + 1]_vars
    /\ [](pc = "loop" /\ current # None =>
              current.code_buf = IF current.in_code
                                 THEN SubSeq(lines, LastFence(lines, idx - 1) + 1, idx - 1)
                                 ELSE << >>)
    /\ [][(InCodeMode /\ AtLine /\ IsFence(line)) =>
              /\ current' = [current EXCEPT
                                !.blocks = Append(@, CodeBlock(current.code_buf)),
                                !.in_code = FALSE,
                                !.code_buf = << >>]
              /\ sections' = sections]_vars
    /\ [][(InCodeMode /\ ~AtLine) =>
              /\ pc' = "returned"
              /\ sections' = Append(sections,
                                [current EXCEPT
                                    !.blocks = Append(@, CodeBlock(current.code_buf)),
                                    !.in_code = FALSE,
                                    !.code_buf = << >>])]_vars

\* a fence that is never closed, followed by a blank line and by a line that
\* looks like a table row: the default section holds the one code block of
\* the two lines
C16_Witness ==
    /\ pc = "returned"
    /\ Len(lines) = 3
    /\ IsFence(lines[1])
    /\ lines[2] = << >>
    /\ _table_row(lines[3]).ok
    /\ Len(sections) = 1
    /\ sections[1].blocks = << CodeBlock(<< lines[2], lines[3] >>) >>
    /\ sections[1].code_buf = << >>

\* ------------------------------------------------------------------------
\* C17: the level and the title of a heading
\* ------------------------------------------------------------------------
\* the line read as the claim words it: after the leading whitespace a run
\* of digits and dots that is a numeral closed by ')' or by its own last
\* dot, then whitespace, then text
ClosedNumeral(l) ==
    LET s    == SubSeq(l, SkipSet(l, 1, Space), Len(l))
        n    == SkipSet(s, 1, Digit \cup {"."})
        byParen == n <= Len(s) /\ s[n] = ")"
        numeral == IF byParen THEN SubSeq(s, 1, n - 1) ELSE SubSeq(s, 1, n - 2)
        rest == IF byParen THEN SubSeq(s, n + 1, Len(s)) ELSE SubSeq(s, n, Len(s))
        parts == SplitOn(numeral, ".")
    IN  [ok |-> /\ n > 1
                /\ byParen \/ s[n - 1] = "."
                /\ numeral # << >>
                /\ \A i \in 1..Len(parts) : parts[i] # << >>
                /\ rest # << >> /\ rest[1] \in Space
                /\ Strip(rest) # << >>,
         numeral |-> numeral,
         k |-> Len(parts),
         text |-> Strip(rest)]

\* the number of hashes a line begins with, after its leading whitespace
Hashes(l) == SkipSet(l, SkipSet(l, 1, Space), {"#"}) - SkipSet(l, 1, Space)

\* the loop is at a line outside the code block that is no fence
OutsideCode == AtLine /\ ~current.in_code /\ ~IsFence(line)

\* C17: outside the code block a line made of a numeral of k components
\* closed by '.' or ')', whitespace and text starts a section of level k
\* titled "<numeral> <text>", with no block yet; a line of h hashes,
\* whitespace and text that is no such line starts a section of level h when
\* h is 1 to 6 and starts none when h is more; and every section has a level
\* of at least 1.
C17_HeadingLevel ==
    /\ [][(OutsideCode /\ ClosedNumeral(line).ok) =>
              /\ Len(sections') = Len(sections) + 1
              /\ current'.title = ClosedNumeral(line).numeral \o << " " >>
                                  \o ClosedNumeral(line).text
              /\ current'.level = ClosedNumeral(line).k
              /\ current'.blocks = << >>]_vars
    /\ [][(OutsideCode /\ ~ClosedNumeral(line).ok /\ _heading_md(raw).ok) =>
              /\ Len(sections') = Len(sections) + 1
              /\ current'.level = Hashes(raw)
              /\ current'.level \in 1..6]_vars
    /\ [][(OutsideCode /\ Hashes(raw) > 6) =>
              /\ sections' = sections
              /\ current'.title = current.title
              /\ current'.level = current.level]_vars
    /\ [](/\ \A i \in 1..Len(sections) : sections[i].level >= 1
          /\ current # None => current.level >= 1)

\* the heading " 2.1) a" followed by a heading of six hashes: a section of
\* level 2 titled "2.1 a" and a section of level 6
C17_Witness ==
    /\ pc = "returned"
    /\ Len(lines) = 2
    /\ lines[1] = << " ", "2", ".", "1", ")", " ", "a" >>
    /\ Hashes(lines[2]) = 6
    /\ Len(sections) = 3
    /\ sections[2].title = << "2", ".", "1", " ", "a" >>
    /\ sections[2].level = 2
    /\ sections[3].level = 6

\* ------------------------------------------------------------------------
\* C18: the line that ends a table
\* ------------------------------------------------------------------------
\* the loop is at a line that is neither fence, heading nor table row, with
\* the table buffer open
TableEnds ==
    /\ OutsideCode
    /\ ~_heading_num(line).ok /\ ~_heading_md(raw).ok
    /\ ~_table_row(line).ok
    /\ current.table_rows # << >>

\* the blocks the section has after the step and had not before it
NewBlocks == SubSeq(current'.blocks, Len(current.blocks) + 1, Len(current'.blocks))

\* C18: with the table buffer open, a blank line adds the table block and
\* nothing else, so no spacer, and empties the buffer; a line that is not
\* blank, and is no table row, heading or fence, adds the table block and
\* after it its own block: the wrapper and the entry of a list item, the
\* callout of a callout line, the paragraph of any other line.
C18_TableFlush ==
    /\ [][(TableEnds /\ Strip(line) = << >>) =>
              /\ NewBlocks = << render_table(current.table_rows) >>
              /\ current'.table_rows = << >>
              /\ sections' = sections]_vars
    /\ [][(TableEnds /\ Strip(line) # << >>) =>
              /\ current'.table_rows = << >>
              /\ sections' = sections
              /\ NewBlocks =
                    << render_table(current.table_rows) >>
                    \o (IF _ul_item(line).ok
                        THEN << << "<ul>" >>,
                                << "<li>" >> \o html_escape(_ul_item(line).g1)
                                             \o << "</li>" >> >>
                        ELSE IF IsCallout(line) THEN << Callout(line) >>
                        ELSE << Paragraph(line) >>)]_vars

\* a table row followed by a callout line: the table block, then the callout
C18_Witness ==
    /\ pc = "returned"
    /\ Len(lines) = 2
    /\ _table_row(lines[1]).ok /\ ~_table_sep(lines[1])
    /\ IsCallout(lines[2])
    /\ Len(sections) = 1
    /\ sections[1].blocks = << render_table(<< lines[1] >>), Callout(lines[2]) >>
    /\ IsTableBlock(sections[1].blocks[1])

\* ------------------------------------------------------------------------
\* C19: the list wrappers
\* ------------------------------------------------------------------------
\* the kind of list a block opens or closes, "None" for any other block
Opens(b) == IF b = << "<ul>" >> THEN "ul" ELSE IF b = << "<ol>" >> THEN "ol" ELSE "None"
Shuts(b) == IF b = << "</ul>" >> THEN "ul" ELSE IF b = << "</ol>" >> THEN "ol" ELSE "None"
IsLi(b) == b # << >> /\ b[1] = "<li>"

RECURSIVE ListsOK(_, _, _)
\* from block p on, with the list of kind open ("None": no list) open
\* before it: a wrapper opens only when none is open, a closing wrapper
\* closes the open list of its kind, an entry lies in an open list, any
\* other block lies outside every list, and none is open at the end
ListsOK(blocks, p, open) ==
    IF p > Len(blocks) THEN open = "None"
    ELSE LET b == blocks[p]
         IN  IF Opens(b) # "None" THEN open = "None" /\ ListsOK(blocks, p + 1, Opens(b))
             ELSE IF Shuts(b) # "None" THEN open = Shuts(b) /\ ListsOK(blocks, p + 1, "None")
             ELSE IF IsLi(b) THEN open # "None" /\ ListsOK(blocks, p + 1, open)
             ELSE open = "None" /\ ListsOK(blocks, p + 1, open)

\* the closing wrapper of the list the current section has open
ClosingWrapper == IF current.list_type = "ul" THEN << "</ul>" >> ELSE << "</ol>" >>

\* the entry of an item line
Li(l) == << "<li>" >> \o html_escape(_ul_item(l).g1) \o << "</li>" >>

\* C19: in every section returned, the list wrappers are balanced and not
\* nested and every <li> lies between a wrapper and its closing wrapper;
\* with a list open, a line that is no list item, blank or not, closes it
\* before anything else: the closing wrapper is the next block of the
\* section, and the last one when the line is a heading; and two item
\* lines with a blank line between them give the entry, the closing
\* wrapper, the spacer, a new wrapper and the second entry.
C19_ListWrappers ==
    /\ [](pc \in {"returned", "report"} =>
              \A i \in 1..Len(sections) : ListsOK(sections[i].blocks, 1, "None"))
    /\ [][(AtLine /\ current.list_type # "None"
                  /\ ~_ul_item(line).ok /\ ~_ol_item(line).ok) =>
              IF Len(sections') > Len(sections)
              THEN sections'[Len(sections')].blocks = Append(current.blocks, ClosingWrapper)
              ELSE /\ Len(current'.blocks) > Len(current.blocks)
                   /\ NewBlocks[1] = ClosingWrapper
                   /\ SubSeq(current'.blocks, 1, Len(current.blocks)) = current.blocks]_vars
    /\ [](pc = "returned" =>
              \A j \in 1..Len(lines) - 2 :
                  (/\ FenceCount(lines, j + 2) = 0
                   /\ _ul_item(lines[j]).ok
                   /\ Strip(lines[j + 1]) = << >>
                   /\ _ul_item(lines[j + 2]).ok) =>
                      LET blocks == sections[1 + HeadingCount(lines, j)].blocks
                      IN  \E p \in 1..Len(blocks) - 4 :
                              SubSeq(blocks, p, p + 4) =
                                  << Li(lines[j]), << "</ul>" >>,
                                     << "<div class='spacer'>", "</div>" >>,
                                     << "<ul>" >>, Li(lines[j + 2]) >>)

\* two item lines with a blank line between them: two lists of one entry
\* each in the default section, with the spacer between them
C19_Witness ==
    /\ pc = "returned"
    /\ Len(lines) = 3
    /\ _ul_item(lines[1]).ok /\ lines[2] = << >> /\ _ul_item(lines[3]).ok
    /\ Len(sections) = 1
    /\ sections[1].blocks = << << "<ul>" >>, Li(lines[1]), << "</ul>" >>,
                               << "<div class='spacer'>", "</div>" >>,
                               << "<ul>" >>, Li(lines[3]), << "</ul>" >> >>

\* ------------------------------------------------------------------------
\* C20: the label and the body of a callout
\* ------------------------------------------------------------------------
\* the keyword the callout pattern matched in the line, as the line spells it
MatchedKeyword(l) ==
    LET p0 == SkipSet(l, 1, Space)
        k  == CHOOSE k \in 1..Len(CalloutWords) : HasWordAt(l, p0, CalloutWords[k])
    IN  SubSeq(l, p0, p0 + Len(CalloutWords[k]) - 1)

\* what is left of the line after its first colon
AfterFirstColon(l) == SubSeq(l, SkipTo(l, 1, ":") + 1, Len(l))

\* C20: a line that matches the callout pattern, met outside the code
\* block, adds one callout block whose label is the matched keyword and
\* whose body is what follows the first colon, stripped, both escaped:
\* with a colon or a dash after the keyword, with or without whitespace
\* before it.
C20_CalloutLabelBody ==
    [][(OutsideCode /\ IsCallout(line)) =>
           /\ Len(current'.blocks) > Len(current.blocks)
           /\ current'.blocks[Len(current'.blocks)] =
                  << "<div class='callout'>", "<strong>" >>
                  \o html_escape(MatchedKeyword(line))
                  \o << ":", "</strong>", " " >>
                  \o html_escape(Strip(AfterFirstColon(line)))
                  \o << "</div>" >>]_vars

\* ------------------------------------------------------------------------
\* C21: the blocks of a section are only ever appended to
\* ------------------------------------------------------------------------
\* s begins with t
IsPrefix(t, s) == Len(t) <= Len(s) /\ SubSeq(s, 1, Len(t)) = t

\* C21: a step of the loop changes no section already in the list and
\* takes no block away from the current section, changes none of its blocks
\* and moves none: the blocks it had are the first blocks it has after the
\* step, and when the step starts a section the blocks of the section that
\* was current are the first blocks of the section appended to the list,
\* the new section having none.  In the sections returned the paragraph of
\* a paragraph line met outside the code block is a block of the section of
\* the nearest heading line before it, the default section when there is
\* none, and the paragraphs of two such lines of one section stand in the
\* order of the lines.
C21_BlocksAppendOnly ==
    /\ [][pc = "loop" =>
              /\ IsPrefix(sections, sections')
              /\ IF Len(sections') > Len(sections)
                 THEN /\ Len(sections') = Len(sections) + 1
                      /\ IsPrefix(current.blocks, sections'[Len(sections')].blocks)
                      /\ pc' = "loop" => current'.blocks = << >>
                 ELSE IsPrefix(current.blocks, current'.blocks)]_vars
    /\ [](pc = "returned" =>
              \A j \in 1..Len(lines) :
                  (~InCode(lines, j) /\ ParagraphLine(lines[j])) =>
                      LET blocks == sections[1 + HeadingCount(lines, j)].blocks
                      IN  /\ \E p \in 1..Len(blocks) : blocks[p] = Paragraph(lines[j])
                          /\ \A k \in j + 1..Len(lines) :
                                 (/\ ~InCode(lines, k) /\ ParagraphLine(lines[k])
                                  /\ HeadingCount(lines, k) = HeadingCount(lines, j)) =>
                                     \E p, q \in 1..Len(blocks) :
                                         /\ p < q
                                         /\ blocks[p] = Paragraph(lines[j])
                                         /\ blocks[q] = Paragraph(lines[k]))

\* two different paragraph lines, then a heading line: the default section
\* holds the two paragraphs in the order of the lines, the second section
\* holds no block
C21_Witness ==
    /\ pc = "returned"
    /\ Len(lines) = 3
    /\ ParagraphLine(lines[1]) /\ ParagraphLine(lines[2]) /\ lines[1] # lines[2]
    /\ HeadingAt(lines, 3)
    /\ Len(sections) = 2
    /\ sections[1].blocks = << Paragraph(lines[1]), Paragraph(lines[2]) >>
    /\ sections[2].blocks = << >>

\* ------------------------------------------------------------------------
\* C22: what clean_text leaves of a line of hashes
\* ------------------------------------------------------------------------
\* a line of one to six hashes followed by text: T is the text
HashLine(l) ==
    LET p0 == SkipSet(l, 1, Space)
        p1 == SkipSet(l, p0, {"#"})
        T  == SubSeq(l, SkipSet(l, p1, Space), Len(l))
    IN  [ok |-> p1 > p0 /\ p1 - p0 <= 6 /\ Strip(T) # << >>, T |-> T]

\* some block of the section is b
HasBlock(sec, b) == \E p \in 1..Len(sec.blocks) : sec.blocks[p] = b

\* line m of the cleaned text is rendered in the section sec as what it is
RenderedAs(l, m, sec) ==
    IF InCode(lines, m) THEN \E p \in 1..Len(sec.blocks) : IsCodeBlock(sec.blocks[p])
    ELSE IF _heading_num(l).ok \/ _heading_md(l).ok
    THEN sec.title = HeadingTitle(l) /\ sec.level = HeadingLevel(l)
    ELSE IF _table_row(l).ok THEN \E p \in 1..Len(sec.blocks) : IsTableBlock(sec.blocks[p])
    ELSE IF _ul_item(l).ok THEN HasBlock(sec, Li(l))
    ELSE IF IsCallout(l) THEN HasBlock(sec, Callout(l))
    ELSE HasBlock(sec, Paragraph(l))

\* C22: when build_html_report is given a text with a line of one to six
\* hashes followed by text T, T is a line of the cleaned text, without the
\* hashes; the sections are the default one and one for each heading line
\* of the cleaned text, so that line starts a section exactly when T is
\* itself a numeric heading or a hash heading, the section having the title
\* and the level T gives it, and otherwise T is content of the section
\* current at the line:
\* a paragraph, a list entry, a row of a table, a callout, or a line of the
\* code block that is open.
C22_HashesRemoved ==
    (caller = "build_html_report" /\ pc \in {"returned", "report"}) =>
        LET input == splitlines(plain_text)
        IN  /\ Len(sections) = 1 + HeadingCount(lines, Len(lines))
            /\ \A j \in 1..Len(input) :
                   HashLine(input[j]).ok =>
                       \E m \in 1..Len(lines) :
                           /\ lines[m] = HashLine(input[j]).T
                           /\ ~IsFence(lines[m])
                           /\ RenderedAs(lines[m], m, sections[1 + HeadingCount(lines, m)])

\* "## 1. x" followed by "### &": the first line is left as the numeric
\* heading "1. x", the second as the paragraph "&" of its section
C22_Witness ==
    /\ caller = "build_html_report"
    /\ pc = "report"
    /\ splitlines(plain_text) = << << "#", "#", " ", "1", ".", " ", "x" >>,
                                   << "#", "#", "#", " ", "&" >> >>
    /\ lines = << << "1", ".", " ", "x" >>, << "&" >> >>
    /\ Len(sections) = 2
    /\ sections[2].title = << "1", " ", "x" >>
    /\ sections[2].level = 1
    /\ sections[2].blocks = << Paragraph(<< "&" >>) >>

\* ------------------------------------------------------------------------
\* C23: the id of a section
\* ------------------------------------------------------------------------
\* the characters an id must not hold
Unsafe == Space \cup {"'", "\"", "<", ">", "&"}

HexDigit == Digit \cup {"a", "b", "c", "d", "e", "f"}

\* the id is "id-" followed by eight hexadecimal digits
IsFallbackId(id) ==
    /\ Len(id) = 11
    /\ SubSeq(id, 1, 3) = << "i", "d", "-" >>
    /\ \A i \in 4..11 : id[i] \in HexDigit

\* C23: the id start_section gives a section is not empty and holds no
\* whitespace, quote, '<', '>' or '&'; it is "id-" and eight hexadecimal
\* digits when nothing of the title is left after slugify has taken out
\* what it does not keep, and what is left of the title otherwise.
C23_SafeId ==
    pc = "slug_returned" =>
        /\ current.id # << >>
        /\ \A i \in 1..Len(current.id) : current.id[i] \notin Unsafe
        /\ IF \A i \in 1..Len(plain_text) :
                  plain_text[i] \notin Word \/ plain_text[i] = "_"
           THEN IsFallbackId(current.id)
           ELSE ~IsFallbackId(current.id) /\ current.id = SlugOf(plain_text)

\* the title "<&'" leaves nothing: the id is the fallback
C23_Witness ==
    /\ pc = "slug_returned"
    /\ plain_text = << "<", "&", "'" >>
    /\ IsFallbackId(current.id)

\* ------------------------------------------------------------------------
\* C24: ids are not kept apart
\* ------------------------------------------------------------------------
\* the slugs the titles of the sections leave, in order
Slugs == [i \in 1..Len(sections) |-> SlugOf(sections[i].title)]

\* sections i and j are two sections whose titles leave the same slug
SameSlug(i, j) ==
    /\ i # j
    /\ SlugOf(sections[i].title) # << >>
    /\ SlugOf(sections[i].title) = SlugOf(sections[j].title)

\* C24: the id of a section whose title leaves a slug is that slug, whatever
\* the ids of the sections before it, so two sections whose titles leave
\* the same slug have the same id; in the report their two containers then
\* carry the same id attribute and their two navigation entries point at
\* the same anchor.
C24_IdsNotDeduplicated ==
    pc \in {"returned", "report"} =>
        LET slugs == Slugs
            links == NavLinks(nav_html, 1)
            ids   == [i \in 1..Len(content_blocks) |-> ContainerHead(content_blocks[i]).id]
        IN  \A i \in 1..Len(sections) :
                /\ slugs[i] # << >> => sections[i].id = slugs[i]
                /\ \A j \in 1..Len(sections) :
                       (i # j /\ slugs[i] # << >> /\ slugs[i] = slugs[j]) =>
                           /\ sections[i].id = sections[j].id
                           /\ pc = "report" =>
                                  /\ ids[i] = ids[j]
                                  /\ links[i].href = links[j].href
                                  /\ links[i].href = ids[j]

\* the same numeric heading twice: the second and the third section of the
\* report have one id, and two containers and two links carry it
C24_Witness ==
    /\ pc = "report"
    /\ Len(lines) = 2
    /\ lines[1] = lines[2]
    /\ _heading_num(lines[1]).ok
    /\ Len(sections) = 3
    /\ SameSlug(2, 3)
    /\ sections[2].id = sections[3].id
    /\ ContainerHead(content_blocks[2]).id = ContainerHead(content_blocks[3]).id
    /\ NavLinks(nav_html, 1)[2].href = NavLinks(nav_html, 1)[3].href

\* ------------------------------------------------------------------------
\* C25: no state between calls
\* ------------------------------------------------------------------------
\* two returned lists that differ at most in the ids of the sections whose
\* title leaves no slug
SameSections(a, b) ==
    /\ Len(a) = Len(b)
    /\ \A i \in 1..Len(a) :
           /\ a[i].title = b[i].title
           /\ a[i].level = b[i].level
           /\ a[i].blocks = b[i].blocks
           /\ SlugOf(a[i].title) # << >> => a[i].id = b[i].id

\* C25: in a sequence of calls of parse_to_sections, a call on a text
\* returns the sections any earlier call on the same text returned, with
\* the same titles, levels and blocks, and the same ids where the title
\* leaves a slug, whatever the calls before it and between the two were
\* given.
C25_NoStateBetweenCalls ==
    pc = "returned" =>
        \A k \in 1..Len(results) :
            results[k].text = plain_text => SameSections(results[k].sections, sections)

\* three calls, the first and the third on one text and the second on
\* another: the third returns what the first returned but for the id of a
\* section whose title leaves no slug
C25_Witness ==
    /\ pc = "returned"
    /\ Len(results) = 2
    /\ results[1].text = plain_text
    /\ results[2].text # plain_text
    /\ Len(results[2].sections) > 1
    /\ Len(sections) = 2
    /\ SlugOf(sections[2].title) = << >>
    /\ results[1].sections[2].id # sections[2].id
    /\ SameSections(results[1].sections, sections)

\* ------------------------------------------------------------------------
\* C26: one id for the entry and the container of a section
\* ------------------------------------------------------------------------
\* C26: in the report the anchor and the data-target of the i-th entry of
\* the navigation are the id attribute of the i-th container, which is the
\* id the section got when it started, also when that id is the fallback
\* of a title that leaves no slug.
C26_AnchorIsContainerId ==
    pc = "report" =>
        LET links == NavLinks(nav_html, 1)
        IN  \A i \in 1..Len(sections) :
                LET id == ContainerHead(content_blocks[i]).id
                IN  /\ id = sections[i].id
                    /\ links[i].href = id
                    /\ links[i].target = id
                    /\ SlugOf(sections[i].title) = << >> => IsFallbackId(id)

\* a report with a section whose title "&" leaves no slug: its entry and
\* its container carry the same fallback id
C26_Witness ==
    /\ pc = "report"
    /\ Len(sections) = 2
    /\ sections[2].title = << "&" >>
    /\ IsFallbackId(sections[2].id)
    /\ NavLinks(nav_html, 1)[2].href = sections[2].id
    /\ NavLinks(nav_html, 1)[2].target = sections[2].id
    /\ ContainerHead(content_blocks[2]).id = sections[2].id

\* ------------------------------------------------------------------------
\* C27: the ordered list is out of reach
\* ------------------------------------------------------------------------
\* the section holds nothing of an ordered list
NoOl(sec) ==
    /\ sec.list_type # "ol"
    /\ \A p \in 1..Len(sec.blocks) :
           sec.blocks[p] # << "<ol>" >> /\ sec.blocks[p] # << "</ol>" >>

\* C27: every line the ordered-list pattern matches is matched by the
\* numeric-heading pattern too, with a numeral of one component; met
\* outside the code block it starts a section of level 1, so no section,
\* current or returned, ever has an ordered list open or holds an <ol>
\* wrapper, and the report holds none.
C27_NoOrderedList ==
    /\ [](\A m \in 1..Len(lines) :
              _ol_item(RStripCR(lines[m])).ok =>
                  /\ _heading_num(RStripCR(lines[m])).ok
                  /\ Count(_heading_num(RStripCR(lines[m])).g1, ".") = 0)
    /\ [][(OutsideCode /\ _ol_item(line).ok) =>
              /\ Len(sections') = Len(sections) + 1
              /\ current'.level = 1
              /\ current'.blocks = << >>]_vars
    /\ [](/\ current # None => NoOl(current)
          /\ \A i \in 1..Len(sections) : NoOl(sections[i])
          /\ \A i \in 1..Len(content_blocks) :
                 \A p \in 1..Len(content_blocks[i]) :
                     content_blocks[i][p] \notin {"<ol>", "</ol>"})

\* the line "1. a" met in an open list: the ordered-list pattern matches
\* it, and it closes the list and starts the section "1 a" of level 1
C27_Witness ==
    /\ pc = "returned"
    /\ Len(lines) = 2
    /\ _ul_item(lines[1]).ok
    /\ lines[2] = << "1", ".", " ", "a" >>
    /\ _ol_item(lines[2]).ok
    /\ Len(sections) = 2
    /\ sections[1].blocks = << << "<ul>" >>, Li(lines[1]), << "</ul>" >> >>
    /\ sections[2].title = << "1", " ", "a" >>
    /\ sections[2].level = 1
    /\ sections[2].blocks = << >>

\* ------------------------------------------------------------------------
\* C28: enrich_with_article_content
\* ------------------------------------------------------------------------
\* the number of items the call may fetch
FetchCount == IF Len(items) < max_fetch THEN Len(items) ELSE max_fetch

\* the fetch of future i ended with a text to store
GoodFetch(i) ==
    /\ futures[i].state = "finished"
    /\ ~futures[i].outcome.raised
    /\ futures[i].outcome.content \notin {PyNone, << >>}

\* C28: whatever the order in which the fetches end and are taken, the
\* call returns only when one fetch for each of the first max_fetch items
\* has been submitted and has finished; the content of an item changes
\* only in the step that takes the future of that very item, the item being
\* one of the first max_fetch and having a link, and only to the text
\* fetched from its own link; the step that takes a future whose fetch
\* returned None or an empty text, or raised, changes no item; the links
\* and the number of the items never change; and at the return every item
\* whose fetch gave a text holds the text of its link.
C28_EnrichAttribution ==
    /\ [](en_pc = "returned" =>
              /\ Len(futures) = FetchCount
              /\ \A i \in 1..Len(futures) : futures[i].state = "finished"
              /\ \A i \in 1..Len(futures) :
                     GoodFetch(i) => items[i].content = TextOf(items[i].link))
    /\ [][/\ Len(items') = Len(items)
          /\ \A i \in 1..Len(items) :
                 /\ items'[i].link = items[i].link
                 /\ items'[i].content # items[i].content =>
                        /\ i <= max_fetch
                        /\ items[i].link # << >>
                        /\ i \notin seen /\ seen' = seen \cup {i}
                        /\ GoodFetch(i)
                        /\ items'[i].content = TextOf(items[i].link)]_vars
    /\ [][\A i \in seen' \ seen : ~GoodFetch(i) => items' = items]_vars

\* three items and max_fetch 2: the first got the text of its link, the
\* fetch of the second gave nothing and its old content is kept, the third
\* has a link and was never fetched
C28_Witness ==
    /\ en_pc = "returned"
    /\ max_fetch = 2
    /\ Len(items) = 3
    /\ items[1] = [link |-> << "u1" >>, content |-> TextOf(<< "u1" >>)]
    /\ items[2] = [link |-> << "u2" >>, content |-> << "old" >>]
    /\ ~GoodFetch(2)
    /\ items[3] = [link |-> << "u1" >>, content |-> PyNone]
    /\ Len(futures) = 2

\* the items of a list whose key is k, as indices
WithKey(its, k) == { i \in 1..Len(its) : ItemKey(its[i]) = k }

\* the smallest element of a non-empty set of indices
FirstOf(I) == CHOOSE i \in I : \A j \in I : i <= j

C30_StepsOrdered ==
    /\ [](~pdf_exists =>
              /\ calls = << >>
              /\ pc = "idle"
              /\ \A p \in Paths : files[p] = Untouched
              /\ m_pc \in {"check_pdf", "exited"}
              /\ m_pc = "exited" => exit_status = 1)
    /\ [](m_pc = "exited" => ~pdf_exists)
    /\ [](\A k \in 1..Len(calls) :
              /\ k <= Len(Steps)
              /\ calls[k].step = Steps[k]
              /\ k < Len(calls) => calls[k].ok)
    /\ [](pc # "idle" => Len(calls) >= 5 /\ calls[5] = Done("write_txt"))
    /\ []((\E p \in Paths : files[p] # Untouched) =>
              /\ Len(calls) >= 5
              /\ \A k \in 1..4 : calls[k] = Done(Steps[k]))
    /\ []((\E p \in Paths : files[p].kind = "html") =>
              /\ Len(calls) = 6
              /\ calls[5] = Done("write_txt")
              /\ calls[6] = Done("write_html"))
    /\ [][files' # files /\ files'[output_html].kind = "html" =>
              /\ files[TxtPath] = [kind |-> "text", data |-> combined_plain]
              /\ pc = "report"
              /\ plain_text = combined_plain]_vars

\* main has ended well on a reply of two sections: both outputs are
\* written, each to its own path
C30_Witness ==
    /\ m_pc = "done"
    /\ exit_status = 0
    /\ rss_entries = 1
    /\ output_html # TxtPath
    /\ files[TxtPath] = [kind |-> "text", data |-> combined_plain]
    /\ files[output_html].kind = "html"
    /\ Len(sections) >= 2
=============================================================================
